---- MODULE Spec2Model ----
(***************************************************************************)
(* Frame-time and glitch state machine of the tempus-fugit timer videos.   *)
(*                                                                         *)
(* Four profiles, one make_frame callback each:                            *)
(*   festival.py  chaotic warp + scheduled jumps + animations + glitches   *)
(*   weird.py     chaotic warp + glitches                                  *)
(*   jump.py      1:1, instant jump, rush phase, glitch pre-roll           *)
(*   main.py      1:1, then gradual or constant acceleration ("simple")    *)
(*                                                                         *)
(* Units.  Render timestamps and durations are integers counting tenths of *)
(* a second (Secs(1) = 10).  Speeds are integers counting thousandths, so  *)
(* the accumulated display time of festival/weird counts 1/10000 s         *)
(* (tenths x thousandths, Disp(1) = 10000).  The jump and simple profiles  *)
(* divide by configuration values; their display time is an exact fraction *)
(* num/den.  Python floats are modelled by these exact numbers.            *)
(*                                                                         *)
(* A display string is a sequence of one-character strings.                *)
(* Python's 0-based positions are kept in the state (corruption_state,     *)
(* color_state keys are 0..4); position i is element i+1 of a sequence.    *)
(***************************************************************************)
EXTENDS Integers, Sequences, FiniteSets, TLC

VARIABLES
    profile,               \* which script runs: "festival", "weird", "jump", "simple"
    config,                \* module globals, patched before the session starts
    accumulated_time,      \* accumulated_time[0]  (festival, weird)
    last_t,                \* last_t[0]            (festival, weird)
    animation,             \* animation_mode[0], animation_start_time[0], animation_duration[0]
    corruption_state,      \* {position: (corrupted_char, expiry_time)}
    color_state,           \* {position: (color, expiry_time)}
    jump_times,            \* festival: sorted jump schedule
    jump_targets,          \* festival: target paired by index
    anim_times,            \* festival: sorted animation schedule
    frame,                 \* what the last make_frame call computed and drew
    hist,                  \* per-trigger bookkeeping over the whole session
    parked                 \* the locals of a second generate_timer_video invocation
                           \* whose make_frame is not the one being called

vars == << profile, config, accumulated_time, last_t, animation, corruption_state,
           color_state, jump_times, jump_targets, anim_times, frame, hist, parked >>

----------------------------------------------------------------------------
(* Units and small helpers *)

Secs(x) == 10 * x

Disp(x) == 10000 * x

Max(a, b) == IF a >= b THEN a ELSE b

Min(a, b) == IF a <= b THEN a ELSE b

Positions == 0 .. 4

None == "none"

Digits == << "0", "1", "2", "3", "4", "5", "6", "7", "8", "9" >>

DigitChar(d) == Digits[d + 1]

RECURSIVE Decimal(_)
Decimal(n) == IF n < 10 THEN << DigitChar(n) >> ELSE Decimal(n \div 10) \o << DigitChar(n % 10) >>

\* f"{n:02d}" for n >= 0
Pad2(n) == IF n < 10 THEN << "0", DigitChar(n) >> ELSE Decimal(n)

\* {k: v for k in m if k != key}
Del(m, key) == [k \in (DOMAIN m) \ {key} |-> m[k]]

\* m[key] = v
Put(m, key, v) == [k \in (DOMAIN m) \cup {key} |-> IF k = key THEN v ELSE m[k]]

EmptyMap == [k \in {} |-> 0]

RECURSIVE GCD(_, _)
GCD(a, b) == IF b = 0 THEN a ELSE GCD(b, a % b)

RECURSIVE SortedSeqs(_, _, _)
\* the non-decreasing sequences of length n over S with every element >= lo
SortedSeqs(S, n, lo) ==
    IF n = 0 THEN { << >> }
    ELSE UNION { { << x >> \o s : s \in SortedSeqs(S, n - 1, x) } : x \in { y \in S : y >= lo } }

----------------------------------------------------------------------------
(* timer_utils.py / festival.py / weird.py: pure functions *)

\* a formatter that rounds the seconds to the nearest whole second
format_time_rounded(n, d) ==
    LET mins == n \div (60 * d)
        secs == ((n % (60 * d)) + d \div 2) \div d
    IN  Pad2(mins) \o << ":" >> \o Pad2(secs)

\* format_time(seconds) for seconds = n/d >= 0:
\*   mins = int(seconds // 60); secs = int(seconds % 60); f"{mins:02d}:{secs:02d}"
format_time(n, d) ==
    LET mins == n \div (60 * d)
        secs == (n % (60 * d)) \div d
    IN  Pad2(mins) \o << ":" >> \o Pad2(secs)

corruption_map ==
    [ c \in { "0", "1", "2", "3", "4", "5", "6", "7", "8", "9", ":" } |->
        CASE c = "0" -> << "O", "0", "D" >>
          [] c = "1" -> << "I", "1", "|", "l" >>
          [] c = "2" -> << "Z", "2", "z" >>
          [] c = "3" -> << "3", "E" >>
          [] c = "4" -> << "4", "A" >>
          [] c = "5" -> << "S", "5", "s" >>
          [] c = "6" -> << "6", "G", "b" >>
          [] c = "7" -> << "7", "T" >>
          [] c = "8" -> << "8", "B" >>
          [] c = "9" -> << "9", "g", "q" >>
          [] c = ":" -> << ":", ";" >> ]

\* a corrupt_digit that replaces a character it has no list for by '?'
corrupt_digit_any_character(char, hit, pick) ==
    IF hit
    THEN IF char \in DOMAIN corruption_map
         THEN corruption_map[char][(pick % Len(corruption_map[char])) + 1]
         ELSE "?"
    ELSE char

\* corrupt_digit(char): hit is the outcome of random.random() > corruption_chance,
\* pick the raw draw behind random.choice (reduced modulo the list length).
corrupt_digit(char, hit, pick) ==
    IF hit /\ char \in DOMAIN corruption_map
    THEN corruption_map[char][(pick % Len(corruption_map[char])) + 1]
    ELSE char

\* 1000 * sin(pi * n / d) for n/d in [0, 3], by Bhaskara's rational approximation
\* sin(pi u) ~ 16 u (1-u) / (5 - 4 u (1-u)) on [0, 1], continued by sign.
\* (The value depends on n/d only; the fraction is reduced first to keep the products
\* small.)
SinMilli(n, d) ==
    LET g == GCD(n, d)
        k == n \div d
        r == (n % d) \div g
        e == d \div g
        q == r * (e - r)
        v == (16000 * q) \div (5 * e * e - 4 * q)
    IN  IF k % 2 = 0 THEN v ELSE 0 - v

\* a speed function whose zones include their boundaries
calculate_weird_time_closed_zones(t, duration) ==
    LET p == 100 * t
        D == duration
        base == 1000 + (12 * SinMilli(3 * t, D)) \div 10
    IN  IF 12 * D <= p /\ p <= 22 * D THEN -2000
        ELSE IF 35 * D <= p /\ p <= 45 * D THEN -3500
        ELSE IF 68 * D <= p /\ p <= 75 * D THEN -4000
        ELSE IF 25 * D <= p /\ p <= 32 * D THEN 150
        ELSE IF 52 * D <= p /\ p <= 58 * D THEN 100
        ELSE IF 60 * D <= p /\ p <= 66 * D THEN 5000
        ELSE IF p >= 82 * D THEN 6000
        ELSE base

\* calculate_weird_time(t, duration): the speed, in thousandths.
\* progress = t / duration; a test  a < progress  is  a*duration < t  in hundredths.
calculate_weird_time(t, duration) ==
    LET p == 100 * t
        D == duration
        base == 1000 + (12 * SinMilli(3 * t, D)) \div 10
    IN  IF 12 * D < p /\ p < 22 * D THEN -2000
        ELSE IF 35 * D < p /\ p < 45 * D THEN -3500
        ELSE IF 68 * D < p /\ p < 75 * D THEN -4000
        ELSE IF 25 * D < p /\ p < 32 * D THEN 150
        ELSE IF 52 * D < p /\ p < 58 * D THEN 100
        ELSE IF 60 * D < p /\ p < 66 * D THEN 5000
        ELSE IF p > 82 * D THEN 6000
        ELSE base

----------------------------------------------------------------------------
(* festival.py: the animation overlays.  A progress value is the fraction *)
(* n/d (elapsed ticks over duration ticks); a threshold test p < a/10 is  *)
(* 10*n < a*d.                                                            *)

\* animate_digit_wave(base_time_str, wave_progress), wave_progress = n/d
animate_digit_wave(base_time_str, n, d) ==
    [ k \in 1 .. Len(base_time_str) |->
        IF base_time_str[k] = ":" THEN ":"
        ELSE IF (100 * n + 15 * (k - 1) * d) % (100 * d) < 50 * d
             THEN base_time_str[k]
             ELSE " " ]

\* animate_odd_even(base_time_str, anim_progress)
animate_odd_even(base_time_str, n, d) ==
    [ k \in 1 .. Len(base_time_str) |->
        IF base_time_str[k] = ":" THEN ":"
        ELSE IF 10 * n < 4 * d THEN (IF (k - 1) % 2 = 1 THEN "8" ELSE " ")
        ELSE IF 10 * n < 7 * d THEN (IF (k - 1) % 2 = 1 THEN "8" ELSE base_time_str[k])
        ELSE base_time_str[k] ]

\* a pattern table whose first entry lost a cell
snake_patterns_ragged ==
    << << "-", " ", " ", "-" >>,
       << "|", "-", " ", " ", "-" >>,
       << "|", "|", " ", " ", "-" >>,
       << "|", "|", ":", " ", "-" >>,
       << "|", "|", ":", "-", "|" >>,
       << "|", "|", ":", "|", "|" >>,
       << "-", "|", ":", "|", "|" >>,
       << " ", "-", ":", "|", "|" >>,
       << " ", " ", ":", "|", "|" >>,
       << " ", " ", ":", "-", "|" >>,
       << " ", " ", ":", "-", " " >> >>

snake_patterns ==
    << << "-", " ", " ", " ", "-" >>,
       << "|", "-", " ", " ", "-" >>,
       << "|", "|", " ", " ", "-" >>,
       << "|", "|", ":", " ", "-" >>,
       << "|", "|", ":", "-", "|" >>,
       << "|", "|", ":", "|", "|" >>,
       << "-", "|", ":", "|", "|" >>,
       << " ", "-", ":", "|", "|" >>,
       << " ", " ", ":", "|", "|" >>,
       << " ", " ", ":", "-", "|" >>,
       << " ", " ", ":", "-", " " >> >>

\* a snake that moves two patterns a second
animate_segments_snake_slow(t) ==
    snake_patterns[((2 * t) % (Secs(1) * Len(snake_patterns))) \div Secs(1) + 1]

\* animate_segments_snake(t): idx = int((t * 3) % len(patterns)), t in ticks
animate_segments_snake(t) ==
    snake_patterns[((3 * t) % (Secs(1) * Len(snake_patterns))) \div Secs(1) + 1]

\* animate_lightning(anim_progress, base_time_str)
animate_lightning(n, d, base_time_str) ==
    IF 10 * n < 2 * d THEN << " ", " ", "|", " ", " " >>
    ELSE IF 10 * n < 3 * d THEN << " ", "|", "|", " ", " " >>
    ELSE IF 10 * n < 4 * d THEN << "|", "|", "|", " ", " " >>
    ELSE IF 10 * n < 5 * d THEN << "|", "|", "|", ":", " " >>
    ELSE IF 10 * n < 6 * d THEN << "|", "|", "|", ":", "|" >>
    ELSE IF 10 * n < 8 * d THEN base_time_str
    ELSE IF ((20 * n) \div d) % 2 = 0 THEN << "8", "8", ":", "8", "8" >>
    ELSE base_time_str

\* a count that runs to a full minute
animate_count_up_to_sixty(n, d) == format_time((60 * n) \div d, 1)

\* animate_count_up(anim_progress): format_time(int(anim_progress * 30))
animate_count_up(n, d) == format_time((30 * n) \div d, 1)

\* animate_spinning_digits(anim_progress, base_time_str)
animate_spinning_digits(n, d, base_time_str) ==
    [ k \in 1 .. Len(base_time_str) |->
        IF base_time_str[k] = ":" THEN ":"
        ELSE IF 10 * n < 7 * d
             THEN DigitChar(((n * (10 + (k - 1) * 2)) \div d) % 10)
             ELSE base_time_str[k] ]

\* the "all_eights" branch of make_frame
all_eights(n, d, time_str, actual) ==
    IF 10 * n < 4 * d THEN << "8", "8", ":", "8", "8" >>
    ELSE IF 10 * n < 7 * d
         THEN LET reveal == ((10 * n - 4 * d) * Len(time_str)) \div (3 * d)
              IN  [ k \in 1 .. Len(actual) |-> IF k <= reveal THEN actual[k] ELSE "8" ]
         ELSE time_str

animation_modes ==
    << "wave", "odd_even", "all_eights", "segments_snake", "lightning", "count_up", "spinning" >>

\* "Apply animations if active": the overlay chosen by animation_mode[0]
apply_animation(anim, t, time_str, actual) ==
    IF anim.mode = None THEN time_str
    ELSE LET n == t - anim.start
             d == anim.duration
         IN  CASE anim.mode = "wave" -> animate_digit_wave(time_str, 3 * n, d)
               [] anim.mode = "odd_even" -> animate_odd_even(time_str, n, d)
               [] anim.mode = "all_eights" -> all_eights(n, d, time_str, actual)
               [] anim.mode = "segments_snake" -> animate_segments_snake(t)
               [] anim.mode = "lightning" -> animate_lightning(n, d, actual)
               [] anim.mode = "count_up" -> animate_count_up(n, d)
               [] anim.mode = "spinning" -> animate_spinning_digits(n, d, actual)
               [] OTHER -> time_str

----------------------------------------------------------------------------
(* The trackers: the body of "for i, char in enumerate(time_str)".        *)
(* A cell is [glyph, num, den]: the stored character and its expiry time  *)
(* num/den in ticks (den is 1 except in the jump profile, whose duration  *)
(* divides by GLITCH_BEFORE_JUMP).                                        *)

TEXT_COLOR == "red"

\* a tracker that never reuses a stored cell: every call draws afresh
cell_redrawn_each_call(cells, i, t) == FALSE

\* i in corruption_state and t < corruption_state[i][1]
cell_live(cells, i, t) == i \in DOMAIN cells /\ t * cells[i].den < cells[i].num

\* a corruption loop without "del corruption_state[i]"
corrupt_position_keeps_stale(cells, i, char, t, hit, pick, dur_n, dur_d) ==
    IF cell_live(cells, i, t)
    THEN [cells |-> cells, glyph |-> cells[i].glyph]
    ELSE LET corrupted_char == corrupt_digit(char, hit, pick)
         IN  IF corrupted_char # char
             THEN [cells |-> Put(cells, i, [glyph |-> corrupted_char,
                                            num |-> t * dur_d + dur_n, den |-> dur_d]),
                   glyph |-> corrupted_char]
             ELSE [cells |-> cells, glyph |-> char]

\* a corruption loop that renews the expiry of a live cell in every call
corrupt_position_renews_live(cells, i, char, t, hit, pick, dur_n, dur_d) ==
    IF cell_live(cells, i, t)
    THEN [cells |-> Put(cells, i, [glyph |-> cells[i].glyph,
                                   num |-> t * dur_d + dur_n, den |-> dur_d]),
          glyph |-> cells[i].glyph]
    ELSE LET corrupted_char == corrupt_digit(char, hit, pick)
         IN  IF corrupted_char # char
             THEN [cells |-> Put(cells, i, [glyph |-> corrupted_char,
                                            num |-> t * dur_d + dur_n, den |-> dur_d]),
                   glyph |-> corrupted_char]
             ELSE [cells |-> Del(cells, i), glyph |-> char]

\* One position of the corruption loop.  hit, pick: the draws of corrupt_digit;
\* dur_n/dur_d: the duration the new cell would get.  Returns the map and the glyph.
corrupt_position(cells, i, char, t, hit, pick, dur_n, dur_d) ==
    IF cell_live(cells, i, t)
    THEN [cells |-> cells, glyph |-> cells[i].glyph]
    ELSE LET corrupted_char == corrupt_digit(char, hit, pick)
         IN  IF corrupted_char # char
             THEN [cells |-> Put(cells, i, [glyph |-> corrupted_char,
                                            num |-> t * dur_d + dur_n, den |-> dur_d]),
                   glyph |-> corrupted_char]
             ELSE [cells |-> Del(cells, i), glyph |-> char]

RECURSIVE corrupt_loop(_, _, _, _, _)
\* festival.py / weird.py "Apply persistent digit corruption"; s = [cells, str]
corrupt_loop(i, s, time_str, t, d) ==
    IF i >= Len(time_str) THEN s
    ELSE LET r == corrupt_position(s.cells, i, time_str[i + 1], t,
                                   d.hit[i], d.pick[i], d.corDur[i], 1)
         IN  corrupt_loop(i + 1, [cells |-> r.cells, str |-> Append(s.str, r.glyph)],
                          time_str, t, d)

\* a colour loop that leaves a position to the corruption tracker once that tracker
\* holds a cell for it
color_position_yields_to_glyph(cells, i, t, hit, dur) ==
    IF i \in DOMAIN corruption_state
    THEN [cells |-> cells, color |-> TEXT_COLOR]
    ELSE IF cell_live(cells, i, t)
         THEN [cells |-> cells, color |-> cells[i].glyph]
         ELSE IF hit
              THEN [cells |-> Put(cells, i, [glyph |-> "magenta", num |-> t + dur,
                                             den |-> 1]),
                    color |-> "magenta"]
              ELSE [cells |-> cells, color |-> TEXT_COLOR]

\* One position of festival's colour loop.  Returns the map and the colour.
color_position(cells, i, t, hit, dur) ==
    IF cell_live(cells, i, t)
    THEN [cells |-> cells, color |-> cells[i].glyph]
    ELSE IF hit
         THEN [cells |-> Put(cells, i, [glyph |-> "magenta", num |-> t + dur, den |-> 1]),
               color |-> "magenta"]
         ELSE [cells |-> cells, color |-> TEXT_COLOR]

RECURSIVE color_loop(_, _, _, _, _)
\* festival.py "for i, char in enumerate(corrupted_str)"; s = [cells, colors]
color_loop(i, s, corrupted_str, t, d) ==
    IF i >= Len(corrupted_str) THEN s
    ELSE LET r == color_position(s.cells, i, t, d.tintHit[i], d.tintDur[i])
         IN  color_loop(i + 1, [cells |-> r.cells, colors |-> Append(s.colors, r.color)],
                        corrupted_str, t, d)

\* a drawing step without the test for a space
drawn_with_blanks(corrupted_str) == [ k \in 1 .. Len(corrupted_str) |-> TRUE ]

\* "Draw this character (skip if space from animation)"
drawn(corrupted_str) == [ k \in 1 .. Len(corrupted_str) |-> corrupted_str[k] # " " ]

----------------------------------------------------------------------------
(* festival.py: make_frame *)

\* a trigger test that forgets the previous call's timestamp
jump_trigger_no_lower_bound(prev, jump_t, t) == jump_t <= t

\* a trigger test whose interval includes the previous timestamp
jump_trigger_closed_interval(prev, jump_t, t) == prev <= jump_t /\ jump_t <= t

\* last_t[0] < jump_t <= t
jump_trigger_fires(prev, jump_t, t) == prev < jump_t /\ jump_t <= t

RECURSIVE jump_loop_first_wins(_, _, _, _)
\* a jump loop in which the first trigger that fires in a call keeps its target
jump_loop_first_wins(i, s, prev, t) ==
    IF i > Len(jump_times) THEN s
    ELSE jump_loop_first_wins(i + 1,
                              IF jump_trigger_fires(prev, jump_times[i], t)
                              THEN [acc |-> IF s.fired = << >> THEN jump_targets[i]
                                            ELSE s.acc,
                                    fired |-> Append(s.fired, i)]
                              ELSE s,
                              prev, t)

RECURSIVE jump_loop(_, _, _, _)
\* "Random time jumps!"; s = [acc, fired], fired lists the triggers that fired
jump_loop(i, s, prev, t) ==
    IF i > Len(jump_times) THEN s
    ELSE jump_loop(i + 1,
                   IF jump_trigger_fires(prev, jump_times[i], t)
                   THEN [acc |-> jump_targets[i], fired |-> Append(s.fired, i)]
                   ELSE s,
                   prev, t)

\* a trigger test that forgets "animation_mode[0] is None"
anim_trigger_ignores_active(prev, anim_t, t, mode) == prev < anim_t /\ anim_t <= t

\* a trigger test that lets a trigger at the call's own timestamp through
anim_trigger_restarts_on_time(prev, anim_t, t, mode) ==
    prev < anim_t /\ anim_t <= t /\ (mode = None \/ anim_t + Secs(1) = t)

\* last_t[0] < anim_t <= t and animation_mode[0] is None
anim_trigger_fires(prev, anim_t, t, mode) == prev < anim_t /\ anim_t <= t /\ mode = None

RECURSIVE anim_loop(_, _, _, _, _)
\* "Trigger animations"; s = [anim, log]; log[i] records what trigger i met:
\* whether it was crossed, the animation it saw, whether it started one
anim_loop(i, s, prev, t, d) ==
    IF i > Len(anim_times) THEN s
    ELSE LET start == anim_trigger_fires(prev, anim_times[i], t, s.anim.mode)
             entry == [crossed |-> prev < anim_times[i] /\ anim_times[i] <= t,
                       seen |-> s.anim, started |-> start]
         IN  anim_loop(i + 1,
                       [anim |-> IF start
                                 THEN [mode |-> d.mode, start |-> t, duration |-> d.animDur]
                                 ELSE s.anim,
                        log |-> Append(s.log, entry)],
                       prev, t, d)

\* "Check if animation expired"
expire_animation(anim, t) ==
    IF anim.mode # None /\ (t - anim.start) > anim.duration
    THEN [anim EXCEPT !.mode = None]
    ELSE anim

\* an integration that never runs the clock backwards
integrate_forward_only(acc, dt, speed) == acc + dt * Max(0, speed)

\* accumulated_time[0] += dt * speed
integrate(acc, dt, speed) == acc + dt * speed

\* a remaining time that forgets the wrap at 10 minutes
festival_remaining_unwrapped(visual_time) == Max(0, visual_time)

\* remaining_time = max(0, visual_time % 600)
festival_remaining(visual_time) == Max(0, visual_time % Disp(600))

NoFrame ==
    [ t |-> -1, dt |-> 0, speed |-> 0, fired |-> << >>, jumped |-> 0, anim_log |-> << >>,
      remaining |-> [n |-> 0, d |-> 1], base_str |-> << >>, time_str |-> << >>,
      corrupted_str |-> << >>, colors |-> << >>, visible |-> << >> ]

\* the number of cells a call stored: keys that are new or hold a new value
made(old, new) ==
    Cardinality({ i \in DOMAIN new : i \notin DOMAIN old \/ old[i] # new[i] })

\* The bookkeeping of a festival call: per jump trigger the number of calls in which
\* it fired, the timestamp of the last such call and, independently of the code's
\* test, the timestamp of the first call at or after the trigger time; per animation
\* trigger the number of calls that crossed it, that started an animation from it,
\* and that dropped it; and the number of corruption and colour cells stored so far.
festival_hist(h, j, a, t, c, tint) ==
    [ jump_count |-> [ i \in DOMAIN h.jump_count |->
                         h.jump_count[i] + (IF \E k \in DOMAIN j.fired : j.fired[k] = i THEN 1 ELSE 0) ],
      jump_at |-> [ i \in DOMAIN h.jump_at |->
                      IF \E k \in DOMAIN j.fired : j.fired[k] = i THEN t ELSE h.jump_at[i] ],
      first_reach |-> [ i \in DOMAIN h.first_reach |->
                          IF h.first_reach[i] = -1 /\ t >= jump_times[i] THEN t ELSE h.first_reach[i] ],
      anim_cross |-> [ i \in DOMAIN h.anim_cross |->
                         h.anim_cross[i] + (IF a.log[i].crossed THEN 1 ELSE 0) ],
      anim_start |-> [ i \in DOMAIN h.anim_start |->
                         h.anim_start[i] + (IF a.log[i].started THEN 1 ELSE 0) ],
      anim_drop |-> [ i \in DOMAIN h.anim_drop |->
                        h.anim_drop[i] + (IF a.log[i].crossed /\ ~a.log[i].started THEN 1 ELSE 0) ],
      cor_made |-> h.cor_made + made(corruption_state, c.cells),
      tint_made |-> h.tint_made + made(color_state, tint.cells) ]

\* make_frame(t) of festival.py; d holds the random draws of the call.
\* (Each intermediate value is bound once, in the order the code computes it.)
festival_make_frame(t, d) ==
    \E j \in { jump_loop(1, [acc |-> accumulated_time, fired |-> << >>], last_t, t) },
       a \in { anim_loop(1, [anim |-> animation, log |-> << >>], last_t, t, d) },
       dt \in { t - last_t },
       speed \in { calculate_weird_time(t, config.ACTUAL_DURATION) } :
    \E anim2 \in { expire_animation(a.anim, t) },
       acc2 \in { integrate(j.acc, dt, speed) } :
    \E remaining_time \in { festival_remaining(acc2) } :
    \E actual \in { format_time(remaining_time, Disp(1)) } :
    \E time_str \in { apply_animation(anim2, t, actual, actual) } :
    \E c \in { corrupt_loop(0, [cells |-> corruption_state, str |-> << >>], time_str, t, d) } :
    \E tint \in { color_loop(0, [cells |-> color_state, colors |-> << >>], c.str, t, d) } :
        /\ profile = "festival"
        /\ accumulated_time' = acc2
        /\ last_t' = t
        /\ animation' = anim2
        /\ corruption_state' = c.cells
        /\ color_state' = tint.cells
        /\ frame' = [ t |-> t, dt |-> dt, speed |-> speed, fired |-> j.fired,
                      jumped |-> j.acc, anim_log |-> a.log,
                      remaining |-> [n |-> remaining_time, d |-> Disp(1)],
                      base_str |-> actual, time_str |-> time_str,
                      corrupted_str |-> c.str, colors |-> tint.colors,
                      visible |-> drawn(c.str) ]
        /\ hist' = festival_hist(hist, j, a, t, c, tint)
        /\ UNCHANGED << profile, config, jump_times, jump_targets, anim_times, parked >>

----------------------------------------------------------------------------
(* festival.py: generate_timer_video, the session set-up, and the random   *)
(* draws of one call                                                       *)

NumJumps == 5

NumAnims == 8

\* ACTUAL_DURATION as timer_gui.py patches it into festival (10..600 s)
FestivalConfig == [ ACTUAL_DURATION |-> Secs(12), DISPLAY_DURATION |-> 0 ]

\* random.uniform(5, ACTUAL_DURATION - 5): a value on the frame grid and the upper end
JumpTimeVals(D) == { Secs(6), D - Secs(5) }

\* random.uniform(0, 250), drawn per index
JumpTargetChoices == { << Disp(200), Disp(90), Disp(250), Disp(0), Disp(45) >> }

\* random.uniform(3, ACTUAL_DURATION - 3): both ends
AnimTimeVals(D) == { Secs(3), D - Secs(3) }

\* random.uniform(30, 180)
StartTimes == { Disp(30), Disp(180) }

\* random.uniform(2, 5)
AnimDurs == { Secs(2), Secs(5) }

\* random.uniform(0.3, 2.5)
CorDurs == { 3, 25 }

\* random.uniform(1.0, 3.0)
TintDurs == { Secs(1), Secs(3) }

ModeSet == { animation_modes[k] : k \in DOMAIN animation_modes }

\* The draws of one call: the mode and duration of an animation that starts, and for
\* the positions in cset (tset) a successful corruption (tint) draw.
Draw(mode, animDur, cset, pick, cdur, tset, tdur) ==
    [ mode |-> mode, animDur |-> animDur,
      hit |-> [ i \in Positions |-> i \in cset ],
      pick |-> [ i \in Positions |-> pick ],
      corDur |-> [ i \in Positions |-> cdur ],
      tintHit |-> [ i \in Positions |-> i \in tset ],
      tintDur |-> [ i \in Positions |-> tdur ] ]

InitHist ==
    [ jump_count |-> [ i \in 1 .. NumJumps |-> 0 ],
      jump_at |-> [ i \in 1 .. NumJumps |-> -1 ],
      first_reach |-> [ i \in 1 .. NumJumps |-> -1 ],
      anim_cross |-> [ i \in 1 .. NumAnims |-> 0 ],
      anim_start |-> [ i \in 1 .. NumAnims |-> 0 ],
      anim_drop |-> [ i \in 1 .. NumAnims |-> 0 ],
      cor_made |-> 0, tint_made |-> 0 ]

NoAnimation == [ mode |-> None, start |-> 0, duration |-> 0 ]

\* locals whose schedules are kept in the opposite order, not sorted
festival_locals_unsorted(cfg, start, jt, jg, at) ==
    [ profile |-> "festival", config |-> cfg, accumulated_time |-> start, last_t |-> 0,
      animation |-> NoAnimation, corruption_state |-> EmptyMap, color_state |-> EmptyMap,
      jump_times |-> [ i \in DOMAIN jt |-> jt[Len(jt) + 1 - i] ],
      jump_targets |-> jg,
      anim_times |-> [ i \in DOMAIN at |-> at[Len(at) + 1 - i] ],
      frame |-> NoFrame, hist |-> InitHist ]

\* the locals generate_timer_video of festival.py creates up to "def make_frame"
festival_locals(cfg, start, jt, jg, at) ==
    [ profile |-> "festival", config |-> cfg, accumulated_time |-> start, last_t |-> 0,
      animation |-> NoAnimation, corruption_state |-> EmptyMap, color_state |-> EmptyMap,
      jump_times |-> jt, jump_targets |-> jg, anim_times |-> at,
      frame |-> NoFrame, hist |-> InitHist ]

\* no second invocation of generate_timer_video
NoSession == [ profile |-> None ]

\* the session whose make_frame is being called has the locals s
installed(s) ==
    /\ profile = s.profile
    /\ config = s.config
    /\ accumulated_time = s.accumulated_time
    /\ last_t = s.last_t
    /\ animation = s.animation
    /\ corruption_state = s.corruption_state
    /\ color_state = s.color_state
    /\ jump_times = s.jump_times
    /\ jump_targets = s.jump_targets
    /\ anim_times = s.anim_times
    /\ frame = s.frame
    /\ hist = s.hist

\* generate_timer_video of festival.py up to "def make_frame", under the settings cfg
festival_session(cfg, start, jt, jg, at) ==
    installed(festival_locals(cfg, start, jt, jg, at)) /\ parked = NoSession

festival_setup(start, jt, jg, at) == festival_session(FestivalConfig, start, jt, jg, at)

----------------------------------------------------------------------------
(* SweepSpec: festival sessions swept by frame calls at non-decreasing     *)
(* timestamps on a 2 s grid, with steps of 0 .. MaxStep grid points.  The  *)
(* glitch draws all fail here (GlitchSpec lets them succeed).              *)

MaxStep == 2

GridStep == Secs(2)

SweepTimes(D) == { GridStep * k : k \in 0 .. (D \div GridStep) } \cup { D }

SweepInit ==
    \E start \in StartTimes, jg \in JumpTargetChoices,
       jt \in SortedSeqs(JumpTimeVals(FestivalConfig.ACTUAL_DURATION), NumJumps, 0),
       at \in SortedSeqs(AnimTimeVals(FestivalConfig.ACTUAL_DURATION), NumAnims, 0) :
        festival_setup(start, jt, jg, at)

\* whether the call at t draws random.choice(modes) and random.uniform(2, 5)
draws_animation(t) ==
    \E i \in DOMAIN anim_times : anim_trigger_fires(last_t, anim_times[i], t, animation.mode)

\* the draws of an animation start; a call that starts none consumes no draw
AnimDraws(t) ==
    IF draws_animation(t) THEN ModeSet \X AnimDurs ELSE { << "wave", Secs(2) >> }

SweepFrame ==
    \E t \in SweepTimes(config.ACTUAL_DURATION) :
        /\ last_t <= t
        /\ t <= last_t + MaxStep * GridStep
        /\ \E md \in AnimDraws(t) :
               festival_make_frame(t, Draw(md[1], md[2], {}, 0, 3, {}, Secs(1)))

SweepNext == SweepFrame

SweepSpec == SweepInit /\ [][SweepNext]_vars

----------------------------------------------------------------------------
(* weird.py: make_frame and the session set-up *)

\* DISPLAY_DURATION and ACTUAL_DURATION as timer_gui.py patches them into weird
WeirdConfig == [ ACTUAL_DURATION |-> Secs(12), DISPLAY_DURATION |-> Disp(60) ]

\* remaining_time = max(0, min(DISPLAY_DURATION, DISPLAY_DURATION - visual_time))
weird_remaining(visual_time, display_duration) ==
    Max(0, Min(display_duration, display_duration - visual_time))

\* make_frame(t) of weird.py; d holds the random draws of the call.  The colour
\* tracker of weird.py is commented out: every character is drawn in TEXT_COLOR.
weird_make_frame(t, d) ==
    \E dt \in { t - last_t },
       speed \in { calculate_weird_time(t, config.ACTUAL_DURATION) } :
    \E acc2 \in { integrate(accumulated_time, dt, speed) } :
    \E remaining_time \in { weird_remaining(acc2, config.DISPLAY_DURATION) } :
    \E time_str \in { format_time(remaining_time, Disp(1)) } :
    \E c \in { corrupt_loop(0, [cells |-> corruption_state, str |-> << >>], time_str, t, d) } :
        /\ profile = "weird"
        /\ accumulated_time' = acc2
        /\ last_t' = t
        /\ corruption_state' = c.cells
        /\ frame' = [ NoFrame EXCEPT !.t = t, !.dt = dt, !.speed = speed,
                      !.jumped = accumulated_time,
                      !.remaining = [n |-> remaining_time, d |-> Disp(1)],
                      !.base_str = time_str, !.time_str = time_str,
                      !.corrupted_str = c.str,
                      !.colors = [ k \in 1 .. Len(c.str) |-> TEXT_COLOR ],
                      !.visible = [ k \in 1 .. Len(c.str) |-> TRUE ] ]
        /\ hist' = [ hist EXCEPT !.cor_made = @ + made(corruption_state, c.cells) ]
        /\ UNCHANGED << profile, config, animation, color_state, jump_times, jump_targets,
                        anim_times, parked >>

\* the locals of a profile that has no schedule, animation or colour tracker
plain_locals(name, cfg) ==
    [ profile |-> name, config |-> cfg, accumulated_time |-> 0, last_t |-> 0,
      animation |-> NoAnimation, corruption_state |-> EmptyMap, color_state |-> EmptyMap,
      jump_times |-> << >>, jump_targets |-> << >>, anim_times |-> << >>,
      frame |-> NoFrame, hist |-> InitHist ]

\* generate_timer_video of weird.py up to "def make_frame", under the settings cfg
weird_session(cfg) == installed(plain_locals("weird", cfg)) /\ parked = NoSession

weird_setup == weird_session(WeirdConfig)

----------------------------------------------------------------------------
(* GlitchSpec: the first seconds of a festival and of a weird session,     *)
(* called frame by frame on a 1 s grid (each call repeats the previous     *)
(* timestamp or advances it by one grid step), with the glitch draws free: *)
(* in every call any positions of GlitchPositions may draw a corruption or *)
(* a tint, as long as the session stores at most MaxCells cells.  The      *)
(* festival schedule is fixed; an animation starts at 3 s.                 *)

MaxCells == 2

GlitchGrid == Secs(1)

GlitchHorizon == Secs(5)

GlitchTimes == { GlitchGrid * k : k \in 0 .. (GlitchHorizon \div GlitchGrid) }

\* the positions whose glitch draws may succeed: first digit, colon, last digit
GlitchPositions == { 0, 2, 4 }

\* the raw draws behind random.choice(corruption_map[char])
Picks == { 0, 1 }

\* random.choice(modes), random.uniform(2, 5) of an animation that starts
GlitchAnimDraws(t) ==
    IF draws_animation(t) THEN { "wave", "segments_snake" } \X { Secs(2) }
    ELSE { << "wave", Secs(2) >> }

\* The glitch draws of one call that store at most n cells: the positions whose
\* corruption draw succeeds with their pick and duration, and the positions whose tint
\* draw succeeds with their duration.
GlitchDraws(n, tints) ==
    LET sets == { S \in SUBSET GlitchPositions : Cardinality(S) <= n }
        cor == { << {}, 0, 3 >> } \cup ((sets \ { {} }) \X Picks \X CorDurs)
        tin == { << {}, Secs(1) >> } \cup (IF tints THEN (sets \ { {} }) \X TintDurs ELSE {})
    IN  { ct \in cor \X tin : Cardinality(ct[1][1]) + Cardinality(ct[2][1]) <= n }

GlitchInit ==
    \/ festival_setup(Disp(30),
                      [ i \in 1 .. NumJumps |-> Secs(6) ],
                      << Disp(200), Disp(90), Disp(250), Disp(0), Disp(45) >>,
                      [ i \in 1 .. NumAnims |-> Secs(3) ])
    \/ weird_setup

GlitchFestivalFrame ==
    \E t \in GlitchTimes :
        /\ t \in { last_t, last_t + GlitchGrid }
        /\ \E md \in GlitchAnimDraws(t),
              ct \in GlitchDraws(MaxCells - hist.cor_made - hist.tint_made, TRUE) :
               festival_make_frame(t, Draw(md[1], md[2], ct[1][1], ct[1][2], ct[1][3],
                                           ct[2][1], ct[2][2]))

GlitchWeirdFrame ==
    \E t \in GlitchTimes :
        /\ t \in { last_t, last_t + GlitchGrid }
        /\ \E ct \in GlitchDraws(MaxCells - hist.cor_made, FALSE) :
               weird_make_frame(t, Draw("wave", Secs(2), ct[1][1], ct[1][2], ct[1][3],
                                        ct[2][1], ct[2][2]))

GlitchNext == GlitchFestivalFrame \/ GlitchWeirdFrame

GlitchSpec == GlitchInit /\ [][GlitchNext]_vars

----------------------------------------------------------------------------
(* jump.py: the derived constants, make_frame and the session set-up.      *)
(* JUMP_START counts twentieths (the GUI slider moves in steps of 0.05);   *)
(* durations count ticks.  A display time is a fraction [n, d] of ticks.   *)

\* the module defaults of jump.py
JumpDefault ==
    [ DISPLAY_DURATION |-> Secs(150), ACTUAL_DURATION |-> Secs(130), JUMP_START |-> 16,
      JUMP_AMOUNT |-> Secs(15), GLITCH_BEFORE_JUMP |-> Secs(5) ]

\* jump_time = JUMP_START * ACTUAL_DURATION
jump_time(cfg) == (cfg.JUMP_START * cfg.ACTUAL_DURATION) \div 20

\* glitch_start = jump_time - GLITCH_BEFORE_JUMP
glitch_start(cfg) == jump_time(cfg) - cfg.GLITCH_BEFORE_JUMP

\* RUSH_FACTOR = remaining_display_time / remaining_actual_time
\*               if remaining_actual_time > 0 else 1.0
RUSH_FACTOR(cfg) ==
    LET remaining_display_time == cfg.DISPLAY_DURATION - jump_time(cfg) - cfg.JUMP_AMOUNT
        remaining_actual_time == cfg.ACTUAL_DURATION - jump_time(cfg)
    IN  IF remaining_actual_time > 0
        THEN [n |-> remaining_display_time, d |-> remaining_actual_time]
        ELSE [n |-> 1, d |-> 1]

\* a phase test that keeps the call at the jump time itself in the normal phase
normal_phase_includes_jump(cfg, t) == t <= jump_time(cfg)

\* if t < jump_time
in_normal_phase(cfg, t) == t < jump_time(cfg)

\* visual_time of jump.py
jump_visual_time(cfg, t) ==
    IF in_normal_phase(cfg, t)
    THEN [n |-> t, d |-> 1]
    ELSE LET rf == RUSH_FACTOR(cfg)
         IN  [n |-> (jump_time(cfg) + cfg.JUMP_AMOUNT) * rf.d + (t - jump_time(cfg)) * rf.n,
              d |-> rf.d]

\* remaining_time = max(0, DISPLAY_DURATION - visual_time)
clamped_remaining(display_duration, visual_time) ==
    [n |-> Max(0, display_duration * visual_time.d - visual_time.n), d |-> visual_time.d]

\* format_time(remaining_time) for a remaining time of r.n / r.d ticks
format_ticks(r) == format_time(r.n \div Secs(r.d), 1)

\* a glitch zone that never closes
glitch_zone_never_closes(cfg, t) == glitch_start(cfg) <= t

\* a glitch zone that still holds at the jump time itself
glitch_zone_closed_at_jump(cfg, t) == glitch_start(cfg) <= t /\ t <= jump_time(cfg)

\* if glitch_start <= t < jump_time
in_glitch_zone(cfg, t) == glitch_start(cfg) <= t /\ t < jump_time(cfg)

\* duration = 0.3 + glitch_intensity * 0.7, glitch_intensity = (t - glitch_start) /
\* GLITCH_BEFORE_JUMP: a fraction of ticks
glitch_duration(cfg, t) ==
    [n |-> 3 * cfg.GLITCH_BEFORE_JUMP + 7 * (t - glitch_start(cfg)),
     d |-> cfg.GLITCH_BEFORE_JUMP]

RECURSIVE jump_corrupt_loop(_, _, _, _, _)
\* jump.py "Apply persistent corruption to each character"; s = [cells, str].  The
\* draw against corruption_chance (between 0.9 and 0.995) is d.hit.
jump_corrupt_loop(i, s, time_str, t, d) ==
    IF i >= Len(time_str) THEN s
    ELSE LET dur == glitch_duration(config, t)
             r == corrupt_position(s.cells, i, time_str[i + 1], t,
                                   d.hit[i], d.pick[i], dur.n, dur.d)
         IN  jump_corrupt_loop(i + 1, [cells |-> r.cells, str |-> Append(s.str, r.glyph)],
                               time_str, t, d)

\* make_frame(t) of jump.py; d holds the random draws of the call
jump_make_frame(t, d) ==
    \E remaining_time \in { clamped_remaining(config.DISPLAY_DURATION,
                                              jump_visual_time(config, t)) } :
    \E time_str \in { format_ticks(remaining_time) } :
    \E c \in { IF in_glitch_zone(config, t)
               THEN jump_corrupt_loop(0, [cells |-> corruption_state, str |-> << >>],
                                      time_str, t, d)
               ELSE [cells |-> EmptyMap, str |-> time_str] } :
        /\ profile = "jump"
        /\ corruption_state' = c.cells
        /\ frame' = [ NoFrame EXCEPT !.t = t, !.remaining = remaining_time,
                      !.base_str = time_str, !.time_str = time_str,
                      !.corrupted_str = c.str,
                      !.colors = [ k \in 1 .. Len(c.str) |-> TEXT_COLOR ],
                      !.visible = [ k \in 1 .. Len(c.str) |-> TRUE ] ]
        /\ hist' = [ hist EXCEPT !.cor_made = @ + made(corruption_state, c.cells) ]
        /\ UNCHANGED << profile, config, accumulated_time, last_t, animation, color_state,
                        jump_times, jump_targets, anim_times, parked >>

\* the state of a profile that keeps no warp state, schedule or colour tracker
stateless_setup(name, cfg) == installed(plain_locals(name, cfg)) /\ parked = NoSession

\* generate_timer_video of jump.py up to "def make_frame"
jump_setup(cfg) == stateless_setup("jump", cfg)

----------------------------------------------------------------------------
(* JumpSpec: jump sessions under the settings the GUI can patch in (jump   *)
(* position 0 %, 50 %, 80 %, 100 %; display duration above and below the   *)
(* actual duration), called at non-decreasing timestamps: a coarse grid    *)
(* over the whole video and a fine one around the jump.  Glitch draws are  *)
(* free as in GlitchSpec.                                                  *)

JumpConfigs ==
    { [ JumpDefault EXCEPT !.JUMP_START = js, !.DISPLAY_DURATION = dd ] :
        js \in { 0, 10, 16, 20 }, dd \in { Secs(150), Secs(20) } }

\* offsets from the jump time, in ticks
JumpOffsets == { -50, -25, -12, -9, -6, -3, -1, 0, 2, 5, 10 }

JumpTimes(cfg) ==
    { t \in { Secs(26) * k : k \in 0 .. 5 } \cup { jump_time(cfg) + o : o \in JumpOffsets } :
        0 <= t /\ t <= cfg.ACTUAL_DURATION }

JumpInit == \E cfg \in JumpConfigs : jump_setup(cfg)

JumpFrame ==
    \E t \in JumpTimes(config) :
        /\ frame.t <= t
        /\ \E ct \in GlitchDraws(IF in_glitch_zone(config, t)
                                 THEN MaxCells - hist.cor_made ELSE 0, FALSE) :
               jump_make_frame(t, Draw("wave", Secs(2), ct[1][1], ct[1][2], ct[1][3],
                                       ct[2][1], ct[2][2]))

JumpNext == JumpFrame

JumpSpec == JumpInit /\ [][JumpNext]_vars

----------------------------------------------------------------------------
(* main.py (the "simple" profile): the derived constants, make_frame and   *)
(* the session set-up.  ACCELERATION_START counts twentieths.              *)

\* the module defaults of main.py
SimpleDefault ==
    [ DISPLAY_DURATION |-> Secs(150), ACTUAL_DURATION |-> Secs(110),
      ACCELERATION_START |-> 12, USE_GRADUAL_ACCELERATION |-> TRUE ]

\* accel_start_time = ACCELERATION_START * ACTUAL_DURATION
accel_start_time(cfg) == (cfg.ACCELERATION_START * cfg.ACTUAL_DURATION) \div 20

\* ACCEL_RATE = 2 * (remaining_display_time - remaining_actual_time)
\*              / remaining_actual_time**2  if remaining_actual_time > 0 else 0.0
ACCEL_RATE(cfg) ==
    LET remaining_display_time == cfg.DISPLAY_DURATION - accel_start_time(cfg)
        remaining_actual_time == cfg.ACTUAL_DURATION - accel_start_time(cfg)
    IN  IF remaining_actual_time > 0
        THEN [n |-> 2 * (remaining_display_time - remaining_actual_time),
              d |-> remaining_actual_time * remaining_actual_time]
        ELSE [n |-> 0, d |-> 1]

\* ACCELERATION_FACTOR = remaining_display_time / remaining_actual_time
\*                       if remaining_actual_time > 0 else 1.0
ACCELERATION_FACTOR(cfg) ==
    LET remaining_display_time == cfg.DISPLAY_DURATION - accel_start_time(cfg)
        remaining_actual_time == cfg.ACTUAL_DURATION - accel_start_time(cfg)
    IN  IF remaining_actual_time > 0
        THEN [n |-> remaining_display_time, d |-> remaining_actual_time]
        ELSE [n |-> 1, d |-> 1]

\* a visual time whose acceleration phase forgets the time counted before it
simple_visual_time_restarts(cfg, t) ==
    IF t <= accel_start_time(cfg)
    THEN [n |-> t, d |-> 1]
    ELSE LET f == ACCELERATION_FACTOR(cfg)
         IN  [n |-> (t - accel_start_time(cfg)) * f.n, d |-> f.d]

\* visual_time of main.py
simple_visual_time(cfg, t) ==
    IF t <= accel_start_time(cfg)
    THEN [n |-> t, d |-> 1]
    ELSE LET accel_phase_actual == t - accel_start_time(cfg)
             a == ACCEL_RATE(cfg)
             f == ACCELERATION_FACTOR(cfg)
         IN  IF cfg.USE_GRADUAL_ACCELERATION
             THEN \* 1.0 * x + 0.5 * ACCEL_RATE * x**2
                  \* (a.n is even: halving it is exact)
                  [n |-> (accel_start_time(cfg) + accel_phase_actual) * a.d
                         + (a.n \div 2) * accel_phase_actual * accel_phase_actual,
                   d |-> a.d]
             ELSE [n |-> accel_start_time(cfg) * f.d + accel_phase_actual * f.n, d |-> f.d]

\* make_frame(t) of main.py
simple_make_frame(t) ==
    \E remaining_time \in { clamped_remaining(config.DISPLAY_DURATION,
                                              simple_visual_time(config, t)) } :
    \E time_str \in { format_ticks(remaining_time) } :
        /\ profile = "simple"
        /\ frame' = [ NoFrame EXCEPT !.t = t, !.remaining = remaining_time,
                      !.base_str = time_str, !.time_str = time_str,
                      !.corrupted_str = time_str,
                      !.colors = [ k \in 1 .. Len(time_str) |-> TEXT_COLOR ],
                      !.visible = [ k \in 1 .. Len(time_str) |-> TRUE ] ]
        /\ UNCHANGED << profile, config, accumulated_time, last_t, animation,
                        corruption_state, color_state, jump_times, jump_targets,
                        anim_times, hist, parked >>

\* generate_timer_video of main.py up to "def make_frame"
simple_setup(cfg) == stateless_setup("simple", cfg)

----------------------------------------------------------------------------
(* SimpleSpec: simple sessions under the settings the GUI can patch in     *)
(* (acceleration start 0 %, 25 %, 60 %, 70 %, 100 %; gradual and constant; *)
(* display duration above and below the actual duration), called at        *)
(* non-decreasing timestamps on a 10 s grid plus the acceleration start.   *)

SimpleConfigs ==
    { [ SimpleDefault EXCEPT !.DISPLAY_DURATION = dd, !.ACTUAL_DURATION = ad,
                             !.ACCELERATION_START = as, !.USE_GRADUAL_ACCELERATION = g ] :
        dd \in { Secs(150), Secs(40) }, ad \in { Secs(110), Secs(60) },
        as \in { 0, 5, 12, 14, 20 }, g \in BOOLEAN }

SimpleTimes(cfg) ==
    { Secs(10) * k : k \in 0 .. (cfg.ACTUAL_DURATION \div Secs(10)) }
        \cup { accel_start_time(cfg), cfg.ACTUAL_DURATION }

SimpleInit == \E cfg \in SimpleConfigs : simple_setup(cfg)

SimpleFrame ==
    \E t \in SimpleTimes(config) :
        /\ frame.t < t
        /\ simple_make_frame(t)

SimpleNext == SimpleFrame

SimpleSpec == SimpleInit /\ [][SimpleNext]_vars

----------------------------------------------------------------------------
(* ClampSpec: the value every profile hands to format_time.  Festival and  *)
(* weird sessions of the longest video the GUI allows (600 s), called on a *)
(* coarse grid of a tenth of the video so that the reverse zones drive the *)
(* accumulated time below 0 and the hyper-speed zones drive it past the    *)
(* bounds; jump and simple sessions as in JumpSpec and SimpleSpec.  The    *)
(* glitch draws all fail here.                                             *)

\* ACTUAL_DURATION at the top of the GUI's range
LongFestivalConfig == [ ACTUAL_DURATION |-> Secs(600), DISPLAY_DURATION |-> 0 ]

LongWeirdConfig == [ ACTUAL_DURATION |-> Secs(600), DISPLAY_DURATION |-> Disp(60) ]

ClampTimes(D) == { (D \div 10) * k : k \in 0 .. 10 }

ClampInit ==
    \/ \E start \in StartTimes, jg \in JumpTargetChoices,
          jt \in SortedSeqs(JumpTimeVals(LongFestivalConfig.ACTUAL_DURATION), NumJumps, 0),
          at \in SortedSeqs(AnimTimeVals(LongFestivalConfig.ACTUAL_DURATION), NumAnims, 0) :
           festival_session(LongFestivalConfig, start, jt, jg, at)
    \/ weird_session(LongWeirdConfig)
    \/ JumpInit
    \/ SimpleInit

ClampFestivalFrame ==
    \E t \in ClampTimes(config.ACTUAL_DURATION) :
        /\ profile = "festival"
        /\ last_t < t
        /\ t <= last_t + MaxStep * (config.ACTUAL_DURATION \div 10)
        /\ \E md \in AnimDraws(t) :
               festival_make_frame(t, Draw(md[1], md[2], {}, 0, 3, {}, Secs(1)))

ClampWeirdFrame ==
    \E t \in ClampTimes(config.ACTUAL_DURATION) :
        /\ profile = "weird"
        /\ last_t < t
        /\ t <= last_t + MaxStep * (config.ACTUAL_DURATION \div 10)
        /\ weird_make_frame(t, Draw("wave", Secs(2), {}, 0, 3, {}, Secs(1)))

ClampJumpFrame == profile = "jump" /\ JumpFrame

ClampSimpleFrame == profile = "simple" /\ SimpleFrame

ClampNext == ClampFestivalFrame \/ ClampWeirdFrame \/ ClampJumpFrame \/ ClampSimpleFrame

ClampSpec == ClampInit /\ [][ClampNext]_vars

----------------------------------------------------------------------------
(* SeekSpec: a festival session whose caller does not keep the timestamps  *)
(* in order: besides stepping forward on the 2 s grid it may seek back     *)
(* from behind the first jump time to before it, at most MaxSeeks times    *)
(* more than the schedule has been crossed.  make_frame itself is called   *)
(* as it is: it has no test of the order of its timestamps.                *)

MaxSeeks == 1

SeekInit ==
    festival_setup(Disp(30),
                   [ i \in 1 .. NumJumps |-> Secs(6) ],
                   << Disp(200), Disp(90), Disp(250), Disp(0), Disp(45) >>,
                   [ i \in 1 .. NumAnims |-> Secs(3) ])

SeekForwardFrame ==
    \E t \in SweepTimes(config.ACTUAL_DURATION) :
        /\ last_t < t
        /\ t <= last_t + MaxStep * GridStep
        /\ festival_make_frame(t, Draw("wave", Secs(2), {}, 0, 3, {}, Secs(1)))

SeekBackwardFrame ==
    \E t \in SweepTimes(config.ACTUAL_DURATION) :
        /\ t < jump_times[1]
        /\ jump_times[1] <= last_t
        /\ hist.jump_count[1] <= MaxSeeks
        /\ festival_make_frame(t, Draw("wave", Secs(2), {}, 0, 3, {}, Secs(1)))

SeekNext == SeekForwardFrame \/ SeekBackwardFrame

SeekSpec == SeekInit /\ [][SeekNext]_vars

----------------------------------------------------------------------------
(* SessionsSpec: two invocations of generate_timer_video in one process.   *)
(* Each invocation creates its own locals and its own make_frame closure   *)
(* over them; the variables hold the locals of the session whose           *)
(* make_frame is called next, parked those of the other one.  The caller   *)
(* interleaves the two sessions' frame calls in any order.                 *)

\* the locals of the session whose make_frame is being called
current_session ==
    [ profile |-> profile, config |-> config, accumulated_time |-> accumulated_time,
      last_t |-> last_t, animation |-> animation, corruption_state |-> corruption_state,
      color_state |-> color_state, jump_times |-> jump_times,
      jump_targets |-> jump_targets, anim_times |-> anim_times,
      frame |-> frame, hist |-> hist ]

\* a corruption dict created at module level, shared by every session
resumed_with_shared_cells(s, running) ==
    [ s EXCEPT !.corruption_state = running.corruption_state ]

\* What a session's make_frame finds when it is called after the other session's:
\* the locals of its own invocation ("corruption_state = {}" and the other trackers
\* are created inside generate_timer_video), whatever the running session holds.
resumed(s, running) == s

\* the caller turns to the other session
switch_session ==
    /\ parked # NoSession
    /\ \E s \in { resumed(parked, current_session) } :
          /\ profile' = s.profile
          /\ config' = s.config
          /\ accumulated_time' = s.accumulated_time
          /\ last_t' = s.last_t
          /\ animation' = s.animation
          /\ corruption_state' = s.corruption_state
          /\ color_state' = s.color_state
          /\ jump_times' = s.jump_times
          /\ jump_targets' = s.jump_targets
          /\ anim_times' = s.anim_times
          /\ frame' = s.frame
          /\ hist' = s.hist
    /\ parked' = current_session

SessionHorizon == Secs(2)

\* festival, weird and jump sessions; the festival schedule starts an animation at
\* 1 s and jumps at 2 s
SessionChoices ==
    { festival_locals(FestivalConfig, Disp(30),
                      [ i \in 1 .. NumJumps |-> Secs(2) ],
                      << Disp(200), Disp(90), Disp(250), Disp(0), Disp(45) >>,
                      [ i \in 1 .. NumAnims |-> Secs(1) ]),
      plain_locals("weird", WeirdConfig),
      plain_locals("jump", JumpDefault) }

\* the draws of one call: the last digit may draw a corruption and may draw a tint
SessionDraws ==
    { Draw("wave", Secs(2), cs, 0, 25, ts, Secs(3)) : cs \in { {}, {4} }, ts \in { {}, {4} } }

SessionsInit == \E a, b \in SessionChoices : installed(a) /\ parked = b

\* the timestamp of a session's next frame on the 1 s grid
next_frame_time == IF frame.t < 0 THEN 0 ELSE frame.t + GlitchGrid

SessionFestivalFrame ==
    /\ profile = "festival"
    /\ next_frame_time <= SessionHorizon
    /\ \E d \in SessionDraws : festival_make_frame(next_frame_time, d)

SessionWeirdFrame ==
    /\ profile = "weird"
    /\ next_frame_time <= SessionHorizon
    /\ \E d \in SessionDraws : weird_make_frame(next_frame_time, d)

\* the jump session is called for the last frames of its glitch zone
SessionJumpFrame ==
    /\ profile = "jump"
    /\ next_frame_time <= SessionHorizon
    /\ \E d \in SessionDraws :
          jump_make_frame(jump_time(config) - SessionHorizon - 5 + next_frame_time, d)

SessionsNext ==
    SessionFestivalFrame \/ SessionWeirdFrame \/ SessionJumpFrame \/ switch_session

SessionsSpec == SessionsInit /\ [][SessionsNext]_vars

----------------------------------------------------------------------------
(* OverlaySpec: festival sessions rendered frame by frame at 2 fps over    *)
(* the whole video.  All eight animation triggers share one time (early or *)
(* late), so one animation runs; its mode is any of the seven and it lasts *)
(* 2 s or 5 s, which makes the frames meet the progress values 0, 0.1,     *)
(* 0.2, ... 1.0.  In one call of the session every position may draw a     *)
(* corruption and a tint.                                                  *)

OverlayStep == Secs(1) \div 2

OverlayInit ==
    \E start \in StartTimes, at \in AnimTimeVals(FestivalConfig.ACTUAL_DURATION) :
        festival_setup(start,
                       [ i \in 1 .. NumJumps |-> Secs(6) ],
                       << Disp(200), Disp(90), Disp(250), Disp(0), Disp(45) >>,
                       [ i \in 1 .. NumAnims |-> at ])

\* the glitch draws of a call: none, or (once in the session) all positions
OverlayGlitchDraws ==
    { << {}, {} >> } \cup
    (IF hist.cor_made = 0 /\ hist.tint_made = 0 THEN { << Positions, Positions >> } ELSE {})

OverlayFrame ==
    \E t \in { IF frame.t < 0 THEN 0 ELSE frame.t + OverlayStep } :
        /\ profile = "festival"
        /\ t <= config.ACTUAL_DURATION
        /\ \E md \in AnimDraws(t), g \in OverlayGlitchDraws, pick \in Picks :
               festival_make_frame(t, Draw(md[1], md[2], g[1], pick, 25, g[2], Secs(3)))

OverlayNext == OverlayFrame

OverlaySpec == OverlayInit /\ [][OverlayNext]_vars

----------------------------------------------------------------------------
(* ExpirySpec: the sessions of GlitchSpec (festival, weird) and of JumpSpec *)
(* (jump) side by side, each called as in its own specification, with the   *)
(* glitch draws free: every profile that stores cells stores them here.     *)

ExpiryInit == GlitchInit \/ JumpInit

ExpiryFestivalFrame == profile = "festival" /\ GlitchFestivalFrame

ExpiryWeirdFrame == profile = "weird" /\ GlitchWeirdFrame

ExpiryJumpFrame == profile = "jump" /\ JumpFrame

ExpiryNext == ExpiryFestivalFrame \/ ExpiryWeirdFrame \/ ExpiryJumpFrame

ExpirySpec == ExpiryInit /\ [][ExpiryNext]_vars

----------------------------------------------------------------------------
(* FormatSpec: format_time called on its own, as each make_frame calls it,  *)
(* with a number of seconds given in tenths: every value from 0 to 130 s,   *)
(* the values around one hour's worth of minutes (3600 s) and the values    *)
(* around 6000 s, where the minutes need a third digit.                     *)

FormatInputs ==
    (0 .. Secs(130)) \cup (Secs(3599) .. Secs(3601)) \cup (Secs(5998) .. Secs(6001))

FormatInit == stateless_setup("format", [ ACTUAL_DURATION |-> 0, DISPLAY_DURATION |-> 0 ])

\* time_str = format_time(remaining_time)
FormatCall ==
    \E n \in FormatInputs :
        /\ profile = "format"
        /\ frame' = [ NoFrame EXCEPT !.t = 0, !.remaining = [n |-> n, d |-> Secs(1)],
                                     !.base_str = format_time(n, Secs(1)) ]
        /\ UNCHANGED << profile, config, accumulated_time, last_t, animation,
                        corruption_state, color_state, jump_times, jump_targets,
                        anim_times, hist, parked >>

FormatNext == FormatCall

FormatSpec == FormatInit /\ [][FormatNext]_vars

----------------------------------------------------------------------------
(* ZoneSpec: weird and festival sessions of 20 s and 40 s rendered frame by *)
(* frame at 200 frames per video, so that the progress t / ACTUAL_DURATION  *)
(* takes every multiple of 0.005 in [0, 1]: the inside of every zone of     *)
(* calculate_weird_time, every zone boundary and the gaps between zones.    *)
(* No glitch draw succeeds.                                                 *)

ZoneDurations == { Secs(20), Secs(40) }

ZoneFrames == 200

ZoneInit ==
    \E D \in ZoneDurations :
        \/ weird_session([ ACTUAL_DURATION |-> D, DISPLAY_DURATION |-> Disp(60) ])
        \/ festival_session([ ACTUAL_DURATION |-> D, DISPLAY_DURATION |-> 0 ],
                            Disp(30),
                            [ i \in 1 .. NumJumps |-> Secs(6) ],
                            << Disp(200), Disp(90), Disp(250), Disp(0), Disp(45) >>,
                            [ i \in 1 .. NumAnims |-> Secs(3) ])

\* the timestamp of the next frame
zone_frame_time ==
    IF frame.t < 0 THEN 0 ELSE frame.t + config.ACTUAL_DURATION \div ZoneFrames

ZoneWeirdFrame ==
    /\ profile = "weird"
    /\ zone_frame_time <= config.ACTUAL_DURATION
    /\ weird_make_frame(zone_frame_time, Draw("wave", Secs(2), {}, 0, 3, {}, Secs(1)))

ZoneFestivalFrame ==
    /\ profile = "festival"
    /\ zone_frame_time <= config.ACTUAL_DURATION
    /\ festival_make_frame(zone_frame_time, Draw("wave", Secs(2), {}, 0, 3, {}, Secs(1)))

ZoneNext == ZoneWeirdFrame \/ ZoneFestivalFrame

ZoneSpec == ZoneInit /\ [][ZoneNext]_vars

----------------------------------------------------------------------------
(* Claims about the festival sweep (SweepSpec) *)

SweepDone == frame.t = config.ACTUAL_DURATION

\* C1: every scheduled jump trigger fires in exactly one frame call, the first call
\* whose timestamp is >= the trigger time: at any moment a trigger has fired once if
\* some call has reached its time and never otherwise, the call that fired it is that
\* first call, a firing call leaves the loop with the target of a fired trigger, and
\* after a sweep that reached ACTUAL_DURATION every trigger has fired exactly once.
C1_JumpFiresOnceAtFirstCall ==
    profile = "festival" =>
        /\ \A i \in 1 .. NumJumps :
              /\ hist.jump_count[i] = (IF hist.first_reach[i] # -1 THEN 1 ELSE 0)
              /\ hist.jump_at[i] = hist.first_reach[i]
              /\ SweepDone => hist.jump_count[i] = 1
        /\ \A k \in DOMAIN frame.fired :
              /\ hist.jump_at[frame.fired[k]] = frame.t
              /\ k = Len(frame.fired) => frame.jumped = jump_targets[frame.fired[k]]

\* C1 witness: a finished sweep in which triggers with different times fired, two of
\* them in different calls.
C1_Witness ==
    /\ SweepDone
    /\ \A i \in 1 .. NumJumps : hist.jump_count[i] = 1
    /\ \E i, k \in 1 .. NumJumps : hist.jump_at[i] < hist.jump_at[k]

\* C2 as stated: after a sweep that reached ACTUAL_DURATION each of the 8 entries of
\* anim_times has started an animation in exactly one frame call.
C2_EveryAnimTriggerStarts ==
    (profile = "festival" /\ SweepDone) => \A i \in 1 .. NumAnims : hist.anim_start[i] = 1

\* C2 amended: every animation trigger is crossed by exactly one frame call of the
\* sweep; in that call it starts an animation if animation_mode is None when the loop
\* reaches it and is dropped for good otherwise, so each entry starts at most one
\* animation and crossed = started + dropped.
C2_AnimTriggerCrossedOnce ==
    profile = "festival" =>
        /\ \A i \in 1 .. NumAnims :
              /\ hist.anim_cross[i] = (IF frame.t >= anim_times[i] THEN 1 ELSE 0)
              /\ hist.anim_start[i] + hist.anim_drop[i] = hist.anim_cross[i]
              /\ SweepDone => hist.anim_cross[i] = 1
        /\ \A i \in DOMAIN frame.anim_log :
              /\ frame.anim_log[i].started =>
                    frame.anim_log[i].crossed /\ animation.start = frame.t
              /\ frame.anim_log[i].crossed =>
                    (frame.anim_log[i].started <=> frame.anim_log[i].seen.mode = None)

\* C2 witness: a finished sweep in which two triggers started an animation and
\* another one was dropped.
C2_Witness ==
    /\ SweepDone
    /\ \E i, k, m \in 1 .. NumAnims :
          /\ i # k
          /\ hist.anim_start[i] = 1 /\ hist.anim_start[k] = 1
          /\ hist.anim_drop[m] = 1 /\ hist.anim_start[m] = 0

\* an animation record is active at timestamp t: set and not run out
ActiveAt(anim, t) == anim.mode # None /\ t - anim.start <= anim.duration

\* C3: at most one animation is started per frame call, and a trigger crossed while
\* an animation is active at the call's timestamp is dropped: it starts nothing and
\* mode, start and duration after the call are those the trigger met.
C3_TriggerDroppedWhileActive ==
    profile = "festival" =>
        /\ Cardinality({ i \in DOMAIN frame.anim_log : frame.anim_log[i].started }) <= 1
        /\ \A i \in DOMAIN frame.anim_log :
              (frame.anim_log[i].crossed /\ ActiveAt(frame.anim_log[i].seen, frame.t)) =>
                  /\ ~frame.anim_log[i].started
                  /\ animation = frame.anim_log[i].seen

\* C3 witness: a call crossed a trigger while an animation started by an earlier call
\* was active, and another trigger of the schedule had started that animation.
C3_Witness ==
    \E i \in DOMAIN frame.anim_log :
        /\ frame.anim_log[i].crossed
        /\ ActiveAt(frame.anim_log[i].seen, frame.t)
        /\ frame.anim_log[i].seen.start < frame.t
        /\ animation.mode # None

\* C7 as stated: in a frame call in which a scheduled jump fires, the accumulated
\* time at the end of the call equals the target of the (last) trigger that fired.
C7_JumpCallEndsOnTarget ==
    (profile = "festival" /\ frame.fired # << >>) =>
        accumulated_time = jump_targets[frame.fired[Len(frame.fired)]]

\* C26 as stated: an animation trigger is dropped only while an animation is running
\* at the triggering timestamp: a trigger crossed by a call at which the animation it
\* meets is unset or has already run out (t - start > duration) starts an animation.
C26_DroppedOnlyWhileRunning ==
    profile = "festival" =>
        \A i \in DOMAIN frame.anim_log :
            (frame.anim_log[i].crossed /\ ~ActiveAt(frame.anim_log[i].seen, frame.t)) =>
                frame.anim_log[i].started

\* the schedules of a festival session are as the set-up is to draw them
ScheduleWellFormed ==
    /\ Len(jump_times) = 5 /\ Len(jump_targets) = 5 /\ Len(anim_times) = 8
    /\ \A i \in 1 .. 5 :
          /\ Secs(5) <= jump_times[i] /\ jump_times[i] <= config.ACTUAL_DURATION - Secs(5)
          /\ 0 <= jump_targets[i] /\ jump_targets[i] <= Disp(250)
    /\ \A i \in 1 .. 4 : jump_times[i] <= jump_times[i + 1]
    /\ \A i \in 1 .. 8 :
          Secs(3) <= anim_times[i] /\ anim_times[i] <= config.ACTUAL_DURATION - Secs(3)
    /\ \A i \in 1 .. 7 : anim_times[i] <= anim_times[i + 1]

\* C28: in a festival session there are always 5 jump times in non-decreasing order
\* within [5, ACTUAL_DURATION - 5], each paired by index with a target within
\* [0, 250], and 8 animation times in non-decreasing order within
\* [3, ACTUAL_DURATION - 3]; and no frame call changes any of them.
C28_SchedulesFixed ==
    /\ [](profile = "festival" => ScheduleWellFormed)
    /\ [][ /\ jump_times' = jump_times
           /\ jump_targets' = jump_targets
           /\ anim_times' = anim_times ]_vars

\* C28 witness: a finished sweep over schedules that hold different times, in which
\* every jump has fired and animations were started.
C28_Witness ==
    /\ profile = "festival" /\ SweepDone
    /\ jump_times[1] < jump_times[5]
    /\ anim_times[1] < anim_times[8]
    /\ \A i \in 1 .. 5 : hist.jump_count[i] = 1
    /\ hist.anim_start[1] = 1

\* the jump triggers whose time lies in (previous timestamp, timestamp] of the last
\* call; the previous timestamp is frame.t - frame.dt
CrossedJumps ==
    { i \in 1 .. NumJumps :
        frame.t - frame.dt < jump_times[i] /\ jump_times[i] <= frame.t }

\* C33: when a festival frame call crosses several jump triggers, all of them fire in
\* that call, in schedule order, and the accumulated time that enters the
\* integration step is the target of the last of them in the schedule; the call
\* ends on that target plus dt * speed, whatever the earlier targets were.
C33_LatestCrossedTargetWins ==
    (profile = "festival" /\ frame.t >= 0) =>
        /\ { frame.fired[k] : k \in DOMAIN frame.fired } = CrossedJumps
        /\ Len(frame.fired) = Cardinality(CrossedJumps)
        /\ \A k \in DOMAIN frame.fired :
              k > 1 => frame.fired[k - 1] < frame.fired[k]
        /\ CrossedJumps # {} =>
              LET latest == CHOOSE i \in CrossedJumps : \A k \in CrossedJumps : k <= i
              IN  /\ frame.jumped = jump_targets[latest]
                  /\ accumulated_time = jump_targets[latest] + frame.dt * frame.speed

\* C33 witness: one call crossed two triggers with different times and different
\* targets, and the accumulated time entered the integration with the later target.
C33_Witness ==
    /\ profile = "festival"
    /\ \E i, k \in CrossedJumps :
           /\ jump_times[i] < jump_times[k]
           /\ jump_targets[i] # jump_targets[k]
           /\ frame.jumped = jump_targets[k]
           /\ frame.fired[Len(frame.fired)] = k
    /\ accumulated_time # frame.jumped

\* C35: a festival frame call at the timestamp of the previous call fires no jump,
\* starts no animation and crosses no animation trigger, and leaves the accumulated
\* time, the last timestamp and the animation (mode, start, duration) as they were.
C35_RepeatedTimestampKeepsWarpState ==
    [][ (profile = "festival" /\ frame.t >= 0 /\ frame'.t = frame.t) =>
            ( /\ frame'.fired = << >>
              /\ \A i \in DOMAIN frame'.anim_log :
                    ~frame'.anim_log[i].crossed /\ ~frame'.anim_log[i].started
              /\ accumulated_time' = accumulated_time
              /\ last_t' = last_t
              /\ animation' = animation
              /\ hist'.jump_count = hist.jump_count
              /\ hist'.anim_start = hist.anim_start )
      ]_vars

\* C35 witness: the last call repeated the timestamp of a call that had fired a jump
\* and started an animation at that timestamp; it fired nothing, and the animation
\* is still the one started then.
C35_Witness ==
    /\ profile = "festival"
    /\ frame.t > 0 /\ frame.dt = 0
    /\ frame.fired = << >>
    /\ \E i \in 1 .. NumJumps : hist.jump_at[i] = frame.t /\ hist.jump_count[i] = 1
    /\ animation.mode # None /\ animation.start = frame.t

----------------------------------------------------------------------------
(* Claims about the glitch trackers of festival and weird (GlitchSpec) *)

\* C4: in the festival and weird profiles a frame call whose timestamp is before the
\* expiry of a stored corruption cell renders that position with exactly the stored
\* glyph (and draws it), whatever the underlying character is, and leaves the cell as
\* it is; so the rendered glyph can change only in a call at or after the expiry.
C4_LiveCellRendered ==
    [][ (profile = "festival" \/ profile = "weird") =>
          \A i \in DOMAIN corruption_state :
              (frame'.t * corruption_state[i].den < corruption_state[i].num) =>
                  ( /\ frame'.corrupted_str[i + 1] = corruption_state[i].glyph
                    /\ frame'.visible[i + 1]
                    /\ i \in DOMAIN corruption_state'
                    /\ corruption_state'[i] = corruption_state[i] )
      ]_vars

\* C4 witness: a call rendered the glyph of a live cell over an underlying character
\* that an overlay had blanked (a blank is never corrupted, so the cell was stored by
\* an earlier call over another character).
C4_Witness ==
    \E i \in DOMAIN corruption_state :
        /\ frame.t * corruption_state[i].den < corruption_state[i].num
        /\ frame.time_str[i + 1] = " "
        /\ frame.corrupted_str[i + 1] = corruption_state[i].glyph
        /\ frame.base_str[i + 1] # " "

\* C6 as stated: a festival frame call at the timestamp of the previous call returns
\* the same glyph and the same colour at every position.
C6_SameTimestampSameOutput ==
    [][ (profile = "festival" /\ frame'.t = frame.t) =>
            ( /\ frame'.corrupted_str = frame.corrupted_str
              /\ frame'.colors = frame.colors )
      ]_vars

\* the tracker holds the same cell for position i in both maps, or none in both
same_cell(before, after, i) ==
    /\ i \in DOMAIN before <=> i \in DOMAIN after
    /\ i \in DOMAIN before => after[i] = before[i]

\* C20: in a festival call the two trackers act independently at every position.
\* The glyph and the corruption cell follow from the corruption cell and the overlay
\* character alone: a live corruption cell is kept and rendered, otherwise the
\* position shows the overlay character with no cell, or a fresh cell's glyph.  The
\* colour and the colour cell follow from the colour cell alone: a live colour cell is
\* kept and rendered, otherwise the position is drawn in TEXT_COLOR with the colour
\* cell untouched, or in magenta with a fresh cell.  Neither rule looks at the other
\* tracker's cell, so a position may carry both.
C20_TrackersIndependent ==
    [][ (profile = "festival") =>
          \A i \in Positions :
              /\ cell_live(corruption_state, i, frame'.t) =>
                     ( /\ same_cell(corruption_state, corruption_state', i)
                       /\ frame'.corrupted_str[i + 1] = corruption_state[i].glyph )
              /\ ~cell_live(corruption_state, i, frame'.t) =>
                     ( \/ ( /\ i \notin DOMAIN corruption_state'
                            /\ frame'.corrupted_str[i + 1] = frame'.time_str[i + 1] )
                       \/ ( /\ cell_live(corruption_state', i, frame'.t)
                            /\ corruption_state'[i].glyph # frame'.time_str[i + 1]
                            /\ frame'.corrupted_str[i + 1] = corruption_state'[i].glyph ) )
              /\ cell_live(color_state, i, frame'.t) =>
                     ( /\ same_cell(color_state, color_state', i)
                       /\ frame'.colors[i + 1] = color_state[i].glyph )
              /\ ~cell_live(color_state, i, frame'.t) =>
                     ( \/ ( /\ same_cell(color_state, color_state', i)
                            /\ frame'.colors[i + 1] = TEXT_COLOR )
                       \/ ( /\ cell_live(color_state', i, frame'.t)
                            /\ color_state'[i].glyph = "magenta"
                            /\ frame'.colors[i + 1] = "magenta" ) )
      ]_vars

\* C20 witness: after a festival call one position holds a live corruption cell and a
\* live colour cell, and the frame shows the stored glyph there, in magenta, over a
\* different underlying character.
C20_Witness ==
    /\ profile = "festival"
    /\ \E i \in Positions :
           /\ cell_live(corruption_state, i, frame.t)
           /\ cell_live(color_state, i, frame.t)
           /\ frame.corrupted_str[i + 1] = corruption_state[i].glyph
           /\ frame.corrupted_str[i + 1] # frame.time_str[i + 1]
           /\ frame.colors[i + 1] = "magenta"

\* C21 as stated: after every festival frame call at time t the colour map holds no
\* cell whose expiry is <= t (an expired colour cell is evicted like an expired
\* corruption cell).
C21_NoExpiredColourCell ==
    (profile = "festival" /\ frame.t >= 0) =>
        \A i \in DOMAIN color_state :
            frame.t * color_state[i].den < color_state[i].num

\* C22 as stated: in the festival profile every cell that a wave or odd/even overlay
\* blanks in a frame is invisible in that frame: nothing is drawn at that position.
C22_BlankedCellInvisible ==
    (profile = "festival" /\ frame.t >= 0 /\
     (animation.mode = "wave" \/ animation.mode = "odd_even")) =>
        \A k \in DOMAIN frame.time_str :
            frame.time_str[k] = " " => ~frame.visible[k]

\* C22 amended: a cell the overlay blanks is invisible in that frame unless a live
\* corruption cell covers the position; a covered position shows the cell's glyph.
\* So exactly the cells that are blank after the glyph step are invisible.
C22_UncoveredBlankInvisible ==
    (profile = "festival" /\ frame.t >= 0) =>
        \A k \in DOMAIN frame.time_str :
            /\ (frame.time_str[k] = " " /\ ~cell_live(corruption_state, k - 1, frame.t)) =>
                   (frame.corrupted_str[k] = " " /\ ~frame.visible[k])
            /\ (frame.time_str[k] = " " /\ cell_live(corruption_state, k - 1, frame.t)) =>
                   ( /\ frame.corrupted_str[k] = corruption_state[k - 1].glyph
                     /\ frame.visible[k] )
            /\ frame.visible[k] <=> frame.corrupted_str[k] # " "

\* C22 witness: a wave frame in which one blanked position is invisible and another
\* blanked position, covered by a live corruption cell, shows the cell's glyph.
C22_Witness ==
    /\ profile = "festival" /\ animation.mode = "wave"
    /\ \E k \in DOMAIN frame.time_str :
           /\ frame.time_str[k] = " "
           /\ ~cell_live(corruption_state, k - 1, frame.t)
           /\ ~frame.visible[k]
    /\ \E k \in DOMAIN frame.time_str :
           /\ frame.time_str[k] = " "
           /\ cell_live(corruption_state, k - 1, frame.t)
           /\ frame.visible[k]

\* C23: in the festival and weird profiles, after a frame call at time t every cell
\* left in the corruption map has expiry > t; a position whose cell had expired at t
\* either carries a newly stored cell, or has no cell any more and shows the frame's
\* own character.
C23_ExpiredCellEvicted ==
    [][ (profile = "festival" \/ profile = "weird") =>
          ( /\ \A i \in DOMAIN corruption_state' :
                   frame'.t * corruption_state'[i].den < corruption_state'[i].num
            /\ \A i \in DOMAIN corruption_state :
                   (frame'.t * corruption_state[i].den >= corruption_state[i].num) =>
                       \/ ( /\ i \notin DOMAIN corruption_state'
                            /\ frame'.corrupted_str[i + 1] = frame'.time_str[i + 1] )
                       \/ ( /\ i \in DOMAIN corruption_state'
                            /\ corruption_state'[i] # corruption_state[i]
                            /\ frame'.corrupted_str[i + 1] = corruption_state'[i].glyph ) )
      ]_vars

\* C23 witness: cells were stored, and after a later call the corruption map is empty
\* again and the frame shows its own characters at every position.
C23_Witness ==
    /\ (profile = "festival" \/ profile = "weird")
    /\ hist.cor_made > 0
    /\ DOMAIN corruption_state = {}
    /\ frame.corrupted_str = frame.time_str

----------------------------------------------------------------------------
(* Claims about the jump-and-rush profile (JumpSpec) *)

\* C5 as stated: in the jump profile every frame call before the expiry of a stored
\* corruption cell renders that position with the stored glyph, calls at or after the
\* jump time included.
C5_CellPersistsUntilExpiry ==
    [][ (profile = "jump") =>
          \A i \in DOMAIN corruption_state :
              (frame'.t * corruption_state[i].den < corruption_state[i].num) =>
                  frame'.corrupted_str[i + 1] = corruption_state[i].glyph
      ]_vars

\* C5 amended: a frame call before the expiry of a stored corruption cell renders the
\* stored glyph and keeps the cell if its timestamp is inside the glitch zone
\* (glitch_start <= t < jump time); a call outside the zone, so every call at or after
\* the jump time, empties the corruption map and renders the clock's own characters.
C5_CellPersistsInsideGlitchZone ==
    [][ (profile = "jump") =>
          /\ \A i \in DOMAIN corruption_state :
                 ( /\ frame'.t * corruption_state[i].den < corruption_state[i].num
                   /\ glitch_start(config) <= frame'.t
                   /\ frame'.t < jump_time(config) ) =>
                     ( /\ frame'.corrupted_str[i + 1] = corruption_state[i].glyph
                       /\ i \in DOMAIN corruption_state'
                       /\ corruption_state'[i] = corruption_state[i] )
          /\ ~(glitch_start(config) <= frame'.t /\ frame'.t < jump_time(config)) =>
                 ( /\ corruption_state' = EmptyMap
                   /\ frame'.corrupted_str = frame'.base_str )
      ]_vars

\* C5 witness: a call inside the glitch zone rendered the glyph of a live cell over
\* a clock character that has no such glyph among its corruptions (the cell was stored
\* by an earlier call, over the digit shown then).
C5_Witness ==
    /\ profile = "jump"
    /\ glitch_start(config) <= frame.t /\ frame.t < jump_time(config)
    /\ \E i \in DOMAIN corruption_state :
          /\ frame.t * corruption_state[i].den < corruption_state[i].num
          /\ frame.corrupted_str[i + 1] = corruption_state[i].glyph
          /\ \A k \in DOMAIN corruption_map[frame.base_str[i + 1]] :
                 corruption_map[frame.base_str[i + 1]][k] # corruption_state[i].glyph

\* C8: in the jump profile the remaining time of a call below the jump time is
\* DISPLAY_DURATION - t (clamped at 0), and that of a call at the jump time is
\* DISPLAY_DURATION - jump time - JUMP_AMOUNT (clamped at 0); under the default
\* settings 0.8 / 130 / 150 / 15 the display reads 00:46 one tick below the jump and
\* the remaining time is exactly 31 s, shown as 00:31, at the jump.
C8_RemainingAroundJump ==
    (profile = "jump" /\ frame.t >= 0) =>
        /\ frame.t < jump_time(config) =>
              frame.remaining = [n |-> Max(0, config.DISPLAY_DURATION - frame.t), d |-> 1]
        /\ frame.t = jump_time(config) =>
              frame.remaining.n =
                  frame.remaining.d * Max(0, config.DISPLAY_DURATION - jump_time(config)
                                             - config.JUMP_AMOUNT)
        /\ (config = JumpDefault /\ frame.t = jump_time(config) - 1) =>
              frame.base_str = << "0", "0", ":", "4", "6" >>
        /\ (config = JumpDefault /\ frame.t = jump_time(config)) =>
              /\ frame.remaining.n = frame.remaining.d * Secs(31)
              /\ frame.base_str = << "0", "0", ":", "3", "1" >>

\* C8 witness: under the default settings the call at the jump time (104 s) has
\* exactly 31 s remaining and shows 00:31.
C8_Witness ==
    /\ profile = "jump" /\ config = JumpDefault
    /\ frame.t = jump_time(config) /\ frame.t = Secs(104)
    /\ frame.remaining.n = frame.remaining.d * Secs(31)
    /\ frame.base_str = << "0", "0", ":", "3", "1" >>

\* C10 as stated: in the jump profile, whatever JUMP_START in [0, 1], the remaining
\* time of the call at t = ACTUAL_DURATION is 0.
C10_RushLandsOnZero ==
    (profile = "jump" /\ frame.t = config.ACTUAL_DURATION) => frame.remaining.n = 0

\* C30: in the jump profile, after a frame call whose timestamp lies outside
\* [jump_time - GLITCH_BEFORE_JUMP, jump_time) the corruption map is empty and the
\* rendered string is format_time of the remaining time, with no substituted glyph.
C30_CorruptionOnlyInPreRoll ==
    (profile = "jump" /\ frame.t >= 0 /\
     (frame.t < jump_time(config) - config.GLITCH_BEFORE_JUMP \/
      frame.t >= jump_time(config))) =>
        /\ DOMAIN corruption_state = {}
        /\ frame.corrupted_str = format_ticks(frame.remaining)

\* C30 witness: a session that stored corruption cells in its pre-roll has been called
\* at or after the jump time: the map is empty and the frame shows the clock.
C30_Witness ==
    /\ profile = "jump"
    /\ hist.cor_made > 0
    /\ frame.t >= jump_time(config)
    /\ DOMAIN corruption_state = {}
    /\ frame.corrupted_str = format_ticks(frame.remaining)

----------------------------------------------------------------------------
(* Claims about the simple profile (SimpleSpec) *)

\* C9 as stated: in the simple profile, whatever ACCELERATION_START in [0, 1], gradual
\* or constant, the remaining time of the call at t = ACTUAL_DURATION is 0.
C9_RampLandsOnZero ==
    (profile = "simple" /\ frame.t = config.ACTUAL_DURATION) => frame.remaining.n = 0

\* x <= y for two fractions of ticks with positive denominators (the denominators of
\* one session are 1 or one common value, which keeps the products small)
FracLeq(x, y) ==
    IF x.d = y.d THEN x.n <= y.n
    ELSE IF x.d = 1 THEN x.n * y.d <= y.n
    ELSE IF y.d = 1 THEN x.n <= y.n * x.d
    ELSE x.n * y.d <= y.n * x.d

\* C34: in the simple profile with ACCELERATION_START below 1.0, gradual or constant,
\* a frame call at a later timestamp never shows more remaining time than an earlier
\* one, also when the solved acceleration rate is negative.
C34_RemainingNeverIncreases ==
    [][ (profile = "simple" /\ config.ACCELERATION_START < 20 /\
         frame.t >= 0 /\ frame.t <= frame'.t) =>
            FracLeq(frame'.remaining, frame.remaining)
      ]_vars

\* C34 witness: a gradual session whose solved rate is negative, called inside its
\* acceleration phase before the end of the video, already shows 0 remaining.
C34_Witness ==
    /\ profile = "simple" /\ config.USE_GRADUAL_ACCELERATION
    /\ config.ACCELERATION_START < 20
    /\ config.DISPLAY_DURATION > accel_start_time(config)
    /\ ACCEL_RATE(config).n < 0
    /\ accel_start_time(config) < frame.t /\ frame.t < config.ACTUAL_DURATION
    /\ frame.remaining.n = 0

----------------------------------------------------------------------------
(* Claims about the value handed to the formatter (ClampSpec) *)

\* C11: after any frame call of any profile the remaining time handed to format_time
\* is non-negative and at most the wrap bound: within [0, 600) s for festival, within
\* [0, DISPLAY_DURATION] for weird, jump and simple.
C11_RemainingWithinBounds ==
    frame.t >= 0 =>
        /\ frame.remaining.n >= 0
        /\ profile = "festival" => frame.remaining.n < 600 * frame.remaining.d
        /\ profile = "weird" => frame.remaining.n <= config.DISPLAY_DURATION
        /\ (profile = "jump" \/ profile = "simple") =>
               frame.remaining.n <= config.DISPLAY_DURATION * frame.remaining.d

\* C11 witness: a festival call left the accumulated time at 600 s or more and handed
\* the formatter the wrapped value.
C11_Witness ==
    /\ profile = "festival"
    /\ accumulated_time >= Disp(600)
    /\ frame.remaining.n = accumulated_time - Disp(600)

\* C12 as stated: whenever a festival call leaves the accumulated (warped) time below
\* 0, the frame's clock string is 00:00.
C12_NegativeShowsZero ==
    (profile = "festival" /\ frame.t >= 0 /\ accumulated_time < 0) =>
        frame.base_str = << "0", "0", ":", "0", "0" >>

\* C14 as stated: a jump or simple configuration whose remaining actual time after the
\* phase boundary is zero or negative never gets a frame produced.
C14_DegenerateConfigRejected ==
    ( \/ (profile = "jump" /\ config.ACTUAL_DURATION - jump_time(config) <= 0)
      \/ (profile = "simple" /\ config.ACTUAL_DURATION - accel_start_time(config) <= 0) )
        => frame = NoFrame

\* C24: a weird frame call, and a festival frame call in which no jump fires, at
\* timestamp t adds exactly (t - last_t) * speed(t) to the accumulated time, the
\* speed taken at the new timestamp t, and sets last_t to t.
C24_WarpAdvancesByDtSpeed ==
    [][ (profile = "weird" \/ (profile = "festival" /\ frame'.fired = << >>)) =>
            ( /\ accumulated_time' = accumulated_time +
                    (frame'.t - last_t) * calculate_weird_time(frame'.t, config.ACTUAL_DURATION)
              /\ last_t' = frame'.t )
      ]_vars

\* C24 witness: a festival call in which no jump fired, made in a reverse zone some
\* time after the previous call, has moved the accumulated time back by dt * speed.
C24_Witness ==
    /\ profile = "festival"
    /\ frame.t > 0 /\ frame.fired = << >>
    /\ frame.dt > 0 /\ frame.speed < 0
    /\ last_t = frame.t
    /\ accumulated_time = frame.jumped + frame.dt * frame.speed
    /\ accumulated_time < frame.jumped

----------------------------------------------------------------------------
(* Claims about calls out of order (SeekSpec) *)

\* C13 as stated: a frame call whose timestamp is smaller than that of the previous
\* call is refused: it leaves the accumulated time and the last timestamp unchanged.
C13_BackwardCallRefused ==
    [][ (frame'.t < last_t) =>
            ( /\ accumulated_time' = accumulated_time
              /\ last_t' = last_t )
      ]_vars

\* C25 as stated: after the expiry check of every festival frame call an animation is
\* active only if 0 <= t - start <= duration with duration > 0, so the progress
\* handed to the overlay lies in [0, 1].
C25_ProgressWithinUnitInterval ==
    (profile = "festival" /\ frame.t >= 0 /\ animation.mode # None) =>
        /\ animation.duration > 0
        /\ 0 <= frame.t - animation.start
        /\ frame.t - animation.start <= animation.duration

----------------------------------------------------------------------------
(* Claims about interleaved sessions (SessionsSpec) *)

\* C15: two sessions whose frame calls are interleaved do not affect each other: a
\* frame call of one session leaves every local of the other session as it was, and
\* when the caller turns to the other session its make_frame finds exactly the locals
\* its own last call left (and the first session's are kept as they are).  So each
\* session's state after its k-th call is the one it reaches alone with the same draws.
C15_SessionsIndependent ==
    [][ \/ parked' = parked
        \/ (parked' = current_session /\ current_session' = parked)
      ]_vars

\* C15 witness: both sessions have been called twice or more, in turns, and both hold
\* a corruption cell of their own making.
C15_Witness ==
    /\ parked # NoSession
    /\ frame.t > 0 /\ parked.frame.t > 0
    /\ hist.cor_made > 0 /\ parked.hist.cor_made > 0
    /\ corruption_state # EmptyMap /\ parked.corruption_state # EmptyMap
    /\ corruption_state # parked.corruption_state

----------------------------------------------------------------------------
(* Claims about the expiry of stored cells (ExpirySpec) *)

\* the call stored the cell that the map after holds for position i
stored_now(before, after, i) ==
    i \in DOMAIN after /\ (i \in DOMAIN before => after[i] # before[i])

\* the expiry of cell c lies between t + lo and t + hi (ticks)
expires_within(c, t, lo, hi) ==
    (t + lo) * c.den <= c.num /\ c.num <= (t + hi) * c.den

\* C29: a cell stored by a call at timestamp t expires between t + 0.3 and t + 2.5
\* (festival and weird corruption cells), between t + 0.3 and t + 1.0 (jump
\* corruption cells), between t + 1.0 and t + 3.0 (festival colour cells); and a call
\* before the expiry of a cell never stores another expiry for it (the cell is kept
\* as it is or, in the jump profile outside the glitch zone, removed).
C29_ExpiryWindow ==
    [][ /\ \A i \in Positions :
              /\ stored_now(corruption_state, corruption_state', i) =>
                     /\ (profile = "festival" \/ profile = "weird") =>
                            expires_within(corruption_state'[i], frame'.t, 3, 25)
                     /\ profile = "jump" =>
                            expires_within(corruption_state'[i], frame'.t, 3, 10)
              /\ stored_now(color_state, color_state', i) =>
                     (profile = "festival" /\
                      expires_within(color_state'[i], frame'.t, Secs(1), Secs(3)))
              /\ cell_live(corruption_state, i, frame'.t) =>
                     ~stored_now(corruption_state, corruption_state', i)
              /\ cell_live(color_state, i, frame'.t) =>
                     ~stored_now(color_state, color_state', i)
      ]_vars

\* C29 witness: a jump session, inside its glitch zone, holds a live corruption cell
\* whose expiry is less than 0.3 s away, so an earlier call stored it and the
\* last call kept its expiry.
C29_Witness ==
    /\ profile = "jump" /\ in_glitch_zone(config, frame.t)
    /\ \E i \in DOMAIN corruption_state :
           /\ cell_live(corruption_state, i, frame.t)
           /\ corruption_state[i].num < (frame.t + 3) * corruption_state[i].den
           /\ frame.corrupted_str[i + 1] = corruption_state[i].glyph

\* the glyphs corruption_map lists for a character
alphabet_of(char) ==
    { corruption_map[char][k] : k \in DOMAIN corruption_map[char] }

\* C32: whenever a call stores a corruption cell, the character the position had in
\* that frame (after the overlay) is a key of corruption_map, and the stored glyph is
\* one of the glyphs listed for that character and differs from it; so a position
\* showing a blank, '-' or '|' never gets a new cell.
C32_StoredGlyphFromAlphabet ==
    [][ \A i \in Positions :
            stored_now(corruption_state, corruption_state', i) =>
                /\ frame'.time_str[i + 1] \in DOMAIN corruption_map
                /\ corruption_state'[i].glyph \in alphabet_of(frame'.time_str[i + 1])
                /\ corruption_state'[i].glyph # frame'.time_str[i + 1]
      ]_vars

\* C32 witness: a festival frame under the segment snake in which the colon was
\* corrupted to ';' by this very call while the positions around it show blanks,
\* '-' or '|' and hold no cell.
C32_Witness ==
    /\ profile = "festival" /\ animation.mode = "segments_snake"
    /\ 2 \in DOMAIN corruption_state
    /\ corruption_state[2].glyph = ";"
    /\ frame.time_str[3] = ":"
    /\ \E dur \in CorDurs : corruption_state[2].num = (frame.t + dur) * corruption_state[2].den
    /\ \E i \in { 0, 4 } :
           /\ frame.time_str[i + 1] \in { " ", "-", "|" }
           /\ i \notin DOMAIN corruption_state

----------------------------------------------------------------------------
(* Claims about the chaotic speed function (ZoneSpec) *)

\* the zones of the claim, in hundredths of the progress, with their speeds in
\* thousandths; the last zone is open-ended (1000 stands for no upper end)
SpeedZones ==
    { << 12, 22, -2000 >>, << 35, 45, -3500 >>, << 68, 75, -4000 >>,
      << 25, 32, 150 >>, << 52, 58, 100 >>, << 60, 66, 5000 >>, << 82, 1000, 6000 >> }

\* the zones that hold the progress t / D strictly inside
ZonesAround(t, D) ==
    { z \in SpeedZones : z[1] * D < 100 * t /\ 100 * t < z[2] * D }

\* C27: the speed of a call at progress p = t / ACTUAL_DURATION is the constant of
\* the zone that holds p strictly inside; no progress lies in two zones; and outside
\* all zones, the zone boundaries included, it is the sinusoidal base value
\* 1.0 + 1.2 sin(3 pi p).
C27_SpeedZones ==
    ((profile = "weird" \/ profile = "festival") /\ frame.t >= 0) =>
        LET around == ZonesAround(frame.t, config.ACTUAL_DURATION)
        IN  /\ Cardinality(around) <= 1
            /\ \A z \in around : frame.speed = z[3]
            /\ around = {} =>
                   frame.speed =
                       1000 + (12 * SinMilli(3 * frame.t, config.ACTUAL_DURATION)) \div 10

\* C27 witness: a call exactly on the upper boundary 0.22 of the first reverse zone
\* got the base value, which differs from the speed of the zone.
C27_Witness ==
    /\ profile = "weird"
    /\ 100 * frame.t = 22 * config.ACTUAL_DURATION
    /\ frame.speed = 1000 + (12 * SinMilli(3 * frame.t, config.ACTUAL_DURATION)) \div 10
    /\ frame.speed # -2000

----------------------------------------------------------------------------
(* Claims about the animation overlays (OverlaySpec) *)

\* the last festival call rendered under an animation
OverlayOn == profile = "festival" /\ frame.t >= 0 /\ animation.mode # None

\* the digit a character stands for
DigitVal(c) == CHOOSE k \in 0 .. 9 : DigitChar(k) = c

\* C16: in the festival profile every frame's string has exactly 5 cells, whatever
\* the animation mode and its progress: the clock string, the overlay's replacement,
\* the glitched string and the colours; and the corruption and colour cells sit at
\* indices 0..4.
C16_FiveCells ==
    (profile = "festival" /\ frame.t >= 0) =>
        /\ Len(frame.base_str) = 5
        /\ Len(frame.time_str) = 5
        /\ Len(frame.corrupted_str) = 5
        /\ Len(frame.colors) = 5
        /\ DOMAIN corruption_state \subseteq 0 .. 4
        /\ DOMAIN color_state \subseteq 0 .. 4

\* C16 witness: a frame rendered under an animation whose overlay replaced the clock
\* string, with a corruption cell and a colour cell stored at the last index.
C16_Witness ==
    /\ OverlayOn
    /\ frame.time_str # frame.base_str
    /\ Len(frame.time_str) = 5
    /\ 4 \in DOMAIN corruption_state
    /\ 4 \in DOMAIN color_state

\* C17 as stated: in the festival profile the overlay's replacement string keeps the
\* separator: its cell at index 2 is ':' in every mode and at every progress.
C17_SeparatorKept ==
    OverlayOn => frame.time_str[3] = ":"

\* C18: in count-up mode the overlay string is format_time(floor(30 p)) for the
\* progress p = n / d: it reads 00:SS with SS <= 30 p < SS + 1 whatever the remaining
\* display time is, 00:00 at p = 0 and 00:30 at p = 1.
C18_CountUpShowsThirtyP ==
    (OverlayOn /\ animation.mode = "count_up") =>
        LET n == frame.t - animation.start
            d == animation.duration
            v == 10 * DigitVal(frame.time_str[4]) + DigitVal(frame.time_str[5])
        IN  /\ SubSeq(frame.time_str, 1, 3) = << "0", "0", ":" >>
            /\ d * v <= 30 * n
            /\ 30 * n < d * (v + 1)
            /\ n = 0 => frame.time_str = << "0", "0", ":", "0", "0" >>
            /\ n = d => frame.time_str = << "0", "0", ":", "3", "0" >>

\* C18 witness: a count-up frame at progress 1.0 reads 00:30 while the clock itself
\* reads something else.
C18_Witness ==
    /\ OverlayOn /\ animation.mode = "count_up"
    /\ frame.t - animation.start = animation.duration
    /\ frame.time_str = << "0", "0", ":", "3", "0" >>
    /\ frame.base_str # frame.time_str

\* C19: in segment-snake mode the overlay string is the pattern of index
\* floor(3 t) mod 11 of the absolute timestamp t: a function of t alone, the same
\* for sessions that differ in accumulated time or animation start time.
C19_SnakeFollowsAbsoluteTime ==
    (OverlayOn /\ animation.mode = "segments_snake") =>
        frame.time_str = snake_patterns[(((3 * frame.t) \div Secs(1)) % 11) + 1]

\* C19 witness: a snake frame some time into its animation, whose pattern is not the
\* one the animation's own elapsed time would select.
C19_Witness ==
    /\ OverlayOn /\ animation.mode = "segments_snake"
    /\ frame.t > animation.start
    /\ frame.time_str #
           snake_patterns[(((3 * (frame.t - animation.start)) \div Secs(1)) % 11) + 1]

----------------------------------------------------------------------------
(* Claims about the formatter (FormatSpec) *)

\* the characters of the ten digits
DigitChars == { DigitChar(k) : k \in 0 .. 9 }

\* C31: for 0 <= s < 6000, format_time(s) is a string of 5 characters, two digits,
\* ':' and two digits, whose minutes MM and seconds SS satisfy 60 MM + SS = floor(s)
\* and SS <= 59: the fraction of s is dropped.
C31_FormatIsPaddedMinutesSeconds ==
    (profile = "format" /\ frame.t >= 0 /\ frame.remaining.n < Secs(6000)) =>
        LET str == frame.base_str
        IN  /\ Len(str) = 5
            /\ str[3] = ":"
            /\ \A k \in { 1, 2, 4, 5 } : str[k] \in DigitChars
            /\ LET MM == 10 * DigitVal(str[1]) + DigitVal(str[2])
                   SS == 10 * DigitVal(str[4]) + DigitVal(str[5])
               IN  /\ SS <= 59
                   /\ 60 * MM + SS = frame.remaining.n \div frame.remaining.d

\* C31 witness: 5999.9 s is formatted as 99:59.
C31_Witness ==
    /\ profile = "format"
    /\ frame.remaining = [n |-> Secs(6000) - 1, d |-> Secs(1)]
    /\ frame.base_str = << "9", "9", ":", "5", "9" >>

====
